---------------------------- MODULE Spec2Model ----------------------------
(***************************************************************************)
(* Model of the sketch normalisation and analysis code of animate-server.  *)
(*                                                                         *)
(* Text is a sequence of one-character strings, so that every regular      *)
(* expression, trim and prefix test of the Go source is computed           *)
(* character by character, the way the source computes it.                 *)
(***************************************************************************)
EXTENDS Integers, Sequences, FiniteSets, TLC

VARIABLES
    rev,             \* which function of which service revision this run calls
    raw,             \* the text handed to the first call
    calls,           \* outputs of the sanitizer calls made so far, oldest first
    pc,              \* PreprocessP5Code: "idle", "scan", "rewrite", "join", "done"
    lineNo,          \* PreprocessP5Code: index of the line the current loop is at
    declaredVars,    \* PreprocessP5Code: the declaredVars map, as the set of its keys
    processedLines,  \* PreprocessP5Code: processedLines
    result,          \* PreprocessP5Code: the joined return value
    metadata,        \* AnalyzeP5Code: the returned map, or NoMetadata
    workers,         \* concurrent PreprocessP5Code calls: the locals of each
    animations,      \* the table animations: id -> row (code, description)
    users,           \* the table users: the set of its rows
    issued,          \* the successful saves: the id returned with the row sent
    request,         \* the HTTP request being served, or NoRequest
    reply            \* the HTTP response to it, or NoReply

\* the variables of the single-call runs
sketchVars == <<rev, raw, calls, pc, lineNo, declaredVars, processedLines, result, metadata>>

\* the variables of the server runs
serverVars == <<workers, animations, users, issued, request, reply>>

vars == <<sketchVars, serverVars>>

-----------------------------------------------------------------------------
(* Bounds of the model *)

\* sanitizer calls chained on one text (the output of one is the next input)
MaxCalls == 2
\* body fragments inside a generated fenced input
MaxBody == 2
\* lines of a PreprocessP5Code input
MaxLines == 2
\* parts of an AnalyzeP5Code input
MaxParts == 3
\* the pieces of a text given to the dot loop
MaxDotParts == 5

-----------------------------------------------------------------------------
(* Character classes of Go's regexp (RE2) and of strings.TrimSpace *)

LowerCase == {"a","b","c","d","e","f","g","h","i","j","k","l","m",
              "n","o","p","q","r","s","t","u","v","w","x","y","z"}
UpperCase == {"A","B","C","D","E","F","G","H","I","J","K","L","M",
              "N","O","P","Q","R","S","T","U","V","W","X","Y","Z"}
Digit == {"0","1","2","3","4","5","6","7","8","9"}

\* \w
WordChar == LowerCase \cup UpperCase \cup Digit \cup {"_"}
\* \s, and the white space strings.TrimSpace removes
SpaceChar == {" ", "\t", "\n", "\r", "\f"}
\* [a-zA-Z_$]
IdentStart == LowerCase \cup UpperCase \cup {"_", "$"}
\* [a-zA-Z0-9_$]
IdentChar == IdentStart \cup Digit

-----------------------------------------------------------------------------
(* Package strings *)

\* s[from..to], empty when from > to
Slice(s, from, to) == IF from > to THEN <<>> ELSE SubSeq(s, from, to)

\* whether lit occurs in s at index i
MatchAt(s, i, lit) ==
    /\ i >= 1
    /\ i + Len(lit) - 1 <= Len(s)
    /\ \A k \in 1..Len(lit) : s[i + k - 1] = lit[k]

RECURSIVE IndexFrom(_, _, _)
\* least index >= from at which lit occurs in s, or 0
IndexFrom(s, lit, from) ==
    IF from + Len(lit) - 1 > Len(s) THEN 0
    ELSE IF MatchAt(s, from, lit) THEN from
    ELSE IndexFrom(s, lit, from + 1)

\* strings.Contains
Contains(s, lit) == IndexFrom(s, lit, 1) > 0

\* strings.HasPrefix, strings.HasSuffix
HasPrefix(s, lit) == MatchAt(s, 1, lit)
HasSuffix(s, lit) == Len(lit) <= Len(s) /\ MatchAt(s, Len(s) - Len(lit) + 1, lit)

\* strings.TrimPrefix, strings.TrimSuffix
TrimPrefix(s, lit) == IF HasPrefix(s, lit) THEN Slice(s, Len(lit) + 1, Len(s)) ELSE s
TrimSuffix(s, lit) == IF HasSuffix(s, lit) THEN Slice(s, 1, Len(s) - Len(lit)) ELSE s

RECURSIVE SkipClass(_, _, _)
\* the index after the longest run of characters of class that starts at i,
\* Len(s) + 1 when the run reaches the end (a greedy class* in a regular
\* expression)
SkipClass(s, i, class) ==
    IF i > Len(s) THEN Len(s) + 1
    ELSE IF s[i] \in class THEN SkipClass(s, i + 1, class)
    ELSE i

RECURSIVE SkipTo(_, _, _)
\* the least index >= i of a character of stops, or Len(s) + 1
\* (a greedy [^...]* in a regular expression)
SkipTo(s, i, stops) ==
    IF i > Len(s) THEN Len(s) + 1
    ELSE IF s[i] \in stops THEN i
    ELSE SkipTo(s, i + 1, stops)

RECURSIVE SkipClassBack(_, _, _)
\* the index before the longest run of characters of class that ends at i
SkipClassBack(s, i, class) ==
    IF i < 1 THEN 0
    ELSE IF s[i] \in class THEN SkipClassBack(s, i - 1, class)
    ELSE i

\* strings.TrimSpace
TrimSpace(s) ==
    Slice(s, SkipClass(s, 1, SpaceChar), SkipClassBack(s, Len(s), SpaceChar))

\* number of places at which lit occurs in s
Count(s, lit) == Cardinality({i \in 1..Len(s) : MatchAt(s, i, lit)})

RECURSIVE Concat(_)
\* the concatenation of a sequence of texts
Concat(parts) ==
    IF parts = <<>> THEN <<>> ELSE Head(parts) \o Concat(Tail(parts))

-----------------------------------------------------------------------------
(* Literals of the source *)

\* the backquote character, which a TLA+ string cannot hold
Tick == "BACKQUOTE"

Fence == <<Tick, Tick, Tick>>
TagJs == <<"j","s">>
TagJavascript == <<"j","a","v","a","s","c","r","i","p","t">>
Newline == <<"\n">>
NewP5 == <<"n","e","w"," ","p","5">>
WrapOpen == <<"n","e","w"," ","p","5","(","f","u","n","c","t","i","o","n","(","p",")"," ","{","\n">>
WrapClose == <<"\n","}",")",";">>

-----------------------------------------------------------------------------
(* sanitizeSketchCode, the instance-mode revision (regexp) *)

\* The index after the opening of fenceRegex, the fence and (?:js|javascript)?\n, when
\* it matches at i, or 0.  The three alternatives exclude one another: each
\* must be followed by the newline.
FenceOpenEnd(s, i) ==
    IF ~MatchAt(s, i, Fence) THEN 0
    ELSE IF MatchAt(s, i + 3, TagJs \o Newline) THEN i + 3 + Len(TagJs) + 1
    ELSE IF MatchAt(s, i + 3, TagJavascript \o Newline) THEN i + 3 + Len(TagJavascript) + 1
    ELSE IF MatchAt(s, i + 3, Newline) THEN i + 3 + 1
    ELSE 0

RECURSIVE FenceStartFrom(_, _)
\* the least index >= i at which fenceRegex matches, or 0: an opening with
\* a fence somewhere after it
FenceStartFrom(s, i) ==
    IF i > Len(s) THEN 0
    ELSE IF FenceOpenEnd(s, i) > 0 /\ IndexFrom(s, Fence, FenceOpenEnd(s, i)) > 0 THEN i
    ELSE FenceStartFrom(s, i + 1)

\* fenceRegex.FindStringSubmatch(raw): <<matched, group 1>>.  The match is
\* the leftmost one; ([\s\S]*?) is lazy, so group 1 ends before the first
\* closing fence at or after the end of the opening.
FenceFind(s) ==
    LET i == FenceStartFrom(s, 1)
        b == FenceOpenEnd(s, i)
        c == IndexFrom(s, Fence, b)
    IN  IF i = 0 THEN <<FALSE, <<>>>> ELSE <<TRUE, Slice(s, b, c - 1)>>

RECURSIVE DotReplaceFrom(_, _)
\* dotRe.ReplaceAllString(code, `$1p.$2`) from index i on, dotRe being
\* (\W)\.(\w+).  Go's Expand takes a name as long as possible: `$1p` is the
\* group named "1p", which dotRe does not have, so it expands to nothing and
\* each match is replaced by "." followed by group 2.
DotReplaceFrom(s, i) ==
    IF i > Len(s) THEN <<>>
    ELSE IF /\ s[i] \notin WordChar
            /\ i + 2 <= Len(s)
            /\ s[i + 1] = "."
            /\ s[i + 2] \in WordChar
         THEN LET e == SkipClass(s, i + 2, WordChar)
              IN  <<".">> \o Slice(s, i + 2, e - 1) \o DotReplaceFrom(s, e)
         ELSE <<s[i]>> \o DotReplaceFrom(s, i + 1)

RECURSIVE DotFirstFrom(_, _)
\* a replacement of the leftmost match only
DotFirstFrom(s, i) ==
    IF i > Len(s) THEN <<>>
    ELSE IF /\ s[i] \notin WordChar
            /\ i + 2 <= Len(s)
            /\ s[i + 1] = "."
            /\ s[i + 2] \in WordChar
         THEN <<".">> \o Slice(s, i + 2, Len(s))
         ELSE <<s[i]>> \o DotFirstFrom(s, i + 1)

DotReplaceFirst(s) == DotFirstFrom(s, 1)

DotReplace(s) == DotReplaceFrom(s, 1)

\* the wrap step: "if !strings.HasPrefix(strings.TrimSpace(code), "new p5")"
WrapInstance(code) ==
    IF ~HasPrefix(TrimSpace(code), NewP5) THEN WrapOpen \o code \o WrapClose ELSE code

sanitizeSketchCode(text) ==
    LET m == FenceFind(text)
        code == TrimSpace(IF m[1] THEN m[2] ELSE text)
    IN  WrapInstance(DotReplace(DotReplace(code)))

-----------------------------------------------------------------------------
(* sanitizeSketchCode, the revision of utils.go (TrimPrefix/TrimSuffix) *)

sanitizeSketchCodeTrim(text) ==
    LET c1 == TrimPrefix(text, Fence \o TagJavascript)
        c2 == TrimPrefix(c1, Fence \o TagJs)
        c3 == TrimPrefix(c2, Fence)
        c4 == TrimSuffix(c3, Fence)
    IN  TrimSpace(c4)

-----------------------------------------------------------------------------
(* SanitizeAnimationCode (package internal) *)

\* The index after the fence and (?:javascript|js)?\n? matched at i (a fence is at
\* i).  The alternation prefers javascript, then js, then nothing, and \n?
\* takes the newline when there is one.  No later choice is ever tried:
\* the rest of the expression, (.*?)\n? and the fence, matches after any of them as
\* soon as a fence follows.
BlockOpenEnd(s, i) ==
    LET t == IF MatchAt(s, i + 3, TagJavascript) THEN i + 3 + Len(TagJavascript)
             ELSE IF MatchAt(s, i + 3, TagJs) THEN i + 3 + Len(TagJs)
             ELSE i + 3
    IN  IF MatchAt(s, t, Newline) THEN t + 1 ELSE t

RECURSIVE BlockStartFrom(_, _)
\* the least index >= i at which codeBlockRegex matches, or 0: a fence with
\* another fence somewhere after its opening
BlockStartFrom(s, i) ==
    IF i > Len(s) THEN 0
    ELSE IF MatchAt(s, i, Fence) /\ IndexFrom(s, Fence, BlockOpenEnd(s, i)) > 0 THEN i
    ELSE BlockStartFrom(s, i + 1)

\* codeBlockRegex.FindStringSubmatch(raw): <<matched, group 1>>.  (.*?) is
\* lazy and \n? greedy: group 1 ends before the first fence at or after the
\* end of the opening, less one newline when that fence follows a newline.
BlockFind(s) ==
    LET i == BlockStartFrom(s, 1)
        b == BlockOpenEnd(s, i)
        c == IndexFrom(s, Fence, b)
        e == IF c - 1 >= b /\ s[c - 1] = "\n" THEN c - 2 ELSE c - 1
    IN  IF i = 0 THEN <<FALSE, <<>>>> ELSE <<TRUE, Slice(s, b, e)>>

SanitizeAnimationCode(text) ==
    LET m == BlockFind(text)
    IN  TrimSpace(IF m[1] THEN m[2] ELSE text)

-----------------------------------------------------------------------------
(* PreprocessP5Code: the regular expressions of the two passes.  A line is  *)
(* an element of strings.Split(code, "\n") and holds no newline.            *)

KwLet == <<"l","e","t">>
KwVar == <<"v","a","r">>
KwConst == <<"c","o","n","s","t">>
KwFunction == <<"f","u","n","c","t","i","o","n">>
Canvas == <<"c","a","n","v","a","s">>
CreateCanvasOpen == <<"c","r","e","a","t","e","C","a","n","v","a","s","(">>
CreateCanvas == <<"c","r","e","a","t","e","C","a","n","v","a","s">>
ParentOpen == <<".","p","a","r","e","n","t","(">>
ParentComment == <<"/","/"," ","C","a","n","v","a","s"," ","p","a","r","e","n","t"," ","h","a","n","d","l","e","d"," ","b","y"," ","i","n","s","t","a","n","c","e"," ","m","o","d","e","\n">>
LetSpace == <<"l","e","t"," ">>
VarSpace == <<"v","a","r"," ">>
ConstSpace == <<"c","o","n","s","t"," ">>
ForSpace == <<"f","o","r"," ">>
IfSpace == <<"i","f"," ">>
SlashSlash == <<"/","/">>

RECURSIVE SplitFrom(_, _)
\* strings.Split(s, "\n"), from index i on
SplitFrom(s, i) ==
    LET n == IndexFrom(s, Newline, i)
    IN  IF n = 0 THEN <<Slice(s, i, Len(s))>>
        ELSE <<Slice(s, i, n - 1)>> \o SplitFrom(s, n + 1)

SplitLines(s) == SplitFrom(s, 1)

RECURSIVE JoinLines(_)
\* strings.Join(lines, "\n")
JoinLines(lines) ==
    IF lines = <<>> THEN <<>>
    ELSE IF Len(lines) = 1 THEN lines[1]
    ELSE lines[1] \o Newline \o JoinLines(Tail(lines))

\* the length of (?:let|var|const) matched at i, or 0
DeclKeywordLen(s, i) ==
    IF MatchAt(s, i, KwLet) THEN Len(KwLet)
    ELSE IF MatchAt(s, i, KwVar) THEN Len(KwVar)
    ELSE IF MatchAt(s, i, KwConst) THEN Len(KwConst)
    ELSE 0

\* \s+([a-zA-Z_$][a-zA-Z0-9_$]*) matched at w: <<start of the identifier,
\* index after it>>, or <<0, 0>>.  Both repetitions are greedy and neither
\* can give a character back: what follows white space is no white space.
SpacedIdentAt(s, w) ==
    LET n == SkipClass(s, w, SpaceChar)
    IN  IF n = w \/ n > Len(s) THEN <<0, 0>>
        ELSE IF s[n] \notin IdentStart THEN <<0, 0>>
        ELSE <<n, SkipClass(s, n, IdentChar)>>

\* letRegex, (?:let|var|const)\s+(identifier), matched at i
LetMatchAt(s, i) ==
    LET k == DeclKeywordLen(s, i)
    IN  IF k = 0 THEN <<0, 0>> ELSE SpacedIdentAt(s, i + k)

RECURSIVE LetNamesFrom(_, _)
\* the group 1 of every match of letRegex.FindAllStringSubmatch(line, -1):
\* the matches do not overlap, the search resumes after each
LetNamesFrom(s, i) ==
    IF i > Len(s) THEN {}
    ELSE LET m == LetMatchAt(s, i)
         IN  IF m[1] > 0
             THEN {Slice(s, m[1], m[2] - 1)} \cup LetNamesFrom(s, m[2])
             ELSE LetNamesFrom(s, i + 1)

\* funcRegex, function\s+(identifier), matched at i
FuncMatchAt(s, i) ==
    IF MatchAt(s, i, KwFunction) THEN SpacedIdentAt(s, i + Len(KwFunction)) ELSE <<0, 0>>

RECURSIVE FuncNamesFrom(_, _)
\* group 1 of funcRegex.FindStringSubmatch(line), the leftmost match only
FuncNamesFrom(s, i) ==
    IF i > Len(s) THEN {}
    ELSE LET m == FuncMatchAt(s, i)
         IN  IF m[1] > 0 THEN {Slice(s, m[1], m[2] - 1)} ELSE FuncNamesFrom(s, i + 1)

FuncNames(s) == FuncNamesFrom(s, 1)

\* arrayRegex, (?:let|var|const)\s+(identifier)\s*=\s*\[, matched at i
ArrayMatchAt(s, i) ==
    LET m == LetMatchAt(s, i)
        a == SkipClass(s, m[2], SpaceChar)
        b == SkipClass(s, a + 1, SpaceChar)
    IN  IF m[1] = 0 THEN <<0, 0>>
        ELSE IF a > Len(s) THEN <<0, 0>>
        ELSE IF s[a] # "=" THEN <<0, 0>>
        ELSE IF b > Len(s) THEN <<0, 0>>
        ELSE IF s[b] # "[" THEN <<0, 0>>
        ELSE m

RECURSIVE ArrayNamesFrom(_, _)
\* group 1 of arrayRegex.FindStringSubmatch(line), the leftmost match only
ArrayNamesFrom(s, i) ==
    IF i > Len(s) THEN {}
    ELSE LET m == ArrayMatchAt(s, i)
         IN  IF m[1] > 0 THEN {Slice(s, m[1], m[2] - 1)} ELSE ArrayNamesFrom(s, i + 1)

ArrayNames(s) == ArrayNamesFrom(s, 1)

\* what one iteration of the first pass adds to declaredVars
ScanNames(line) == LetNamesFrom(line, 1) \cup FuncNames(line) \cup ArrayNames(line)

\* canvasRegex after its group (\s*), matched at n:
\* (?:let|var|const)\s+canvas\s*=\s*createCanvas\(([^)]*)\);
\* <<start of group 2, index of the closing parenthesis>>, or <<0, 0>>
CanvasCoreAt(s, n) ==
    LET k == DeclKeywordLen(s, n)
        a == SkipClass(s, n + k, SpaceChar)
        b == SkipClass(s, a + Len(Canvas), SpaceChar)
        c == SkipClass(s, b + 1, SpaceChar)
        d == c + Len(CreateCanvasOpen)
        e == IndexFrom(s, <<")">>, d)          \* ([^)]*) ends before it
    IN  IF k = 0 \/ a = n + k THEN <<0, 0>>
        ELSE IF ~MatchAt(s, a, Canvas) THEN <<0, 0>>
        ELSE IF ~MatchAt(s, b, <<"=">>) THEN <<0, 0>>
        ELSE IF ~MatchAt(s, c, CreateCanvasOpen) THEN <<0, 0>>
        ELSE IF ~MatchAt(s, e, <<")", ";">>) THEN <<0, 0>>
        ELSE <<d, e>>

RECURSIVE CanvasStartFrom(_, _)
\* the least index >= i at which canvasRegex matches, or 0.  (\s*) is
\* greedy: it takes all the white space at i, and the keyword follows.
CanvasStartFrom(s, i) ==
    IF i > Len(s) THEN 0
    ELSE IF CanvasCoreAt(s, SkipClass(s, i, SpaceChar))[1] > 0 THEN i
    ELSE CanvasStartFrom(s, i + 1)

\* canvasRegex.FindStringSubmatch(line): [found, indent (group 1), args
\* (group 2)].  The leftmost match starts where the white space before the
\* keyword starts.
CanvasFind(s) ==
    LET i == CanvasStartFrom(s, 1)
        n == SkipClass(s, i, SpaceChar)
        m == CanvasCoreAt(s, n)
    IN  IF i = 0 THEN [found |-> FALSE, indent |-> <<>>, args |-> <<>>]
        ELSE [found |-> TRUE, indent |-> Slice(s, i, n - 1),
              args |-> Slice(s, m[1], m[2] - 1)]

RECURSIVE LastParentUpTo(_, _)
\* the greatest index <= p at which \.parent\([^)]*\) matches, or 0:
\* ".parent(" with a closing parenthesis somewhere after it
LastParentUpTo(s, p) ==
    IF p < 1 THEN 0
    ELSE IF MatchAt(s, p, ParentOpen) /\ IndexFrom(s, <<")">>, p + Len(ParentOpen)) > 0 THEN p
    ELSE LastParentUpTo(s, p - 1)

\* parentRegex.MatchString(line), parentRegex being (\s*).*\.parent\([^)]*\);?\s*
ParentMatch(s) == LastParentUpTo(s, Len(s)) > 0

\* parentRegex.ReplaceAllString(line, "${1}// Canvas parent handled by
\* instance mode\n") when the line matches.  The match starts at the start
\* of the line: (\s*) takes the indentation and the greedy .* runs to the
\* last ".parent(" a parenthesis closes; the match ends after the first
\* closing parenthesis, one ";" and white space.  No second match follows.
ParentReplace(s) ==
    LET n == SkipClass(s, 1, SpaceChar)
        p == LastParentUpTo(s, Len(s))
        e == IndexFrom(s, <<")">>, p + Len(ParentOpen))
        f == IF MatchAt(s, e + 1, <<";">>) THEN e + 2 ELSE e + 1
        g == SkipClass(s, f, SpaceChar)
    IN  Slice(s, 1, n - 1) \o ParentComment \o Slice(s, g, Len(s))

\* bracketRegex matched at i:
\* (\w+)\[(\w+)\.(\w+)\s*(\+|-|\*|\/|)=\s*([^;]+);
\* [found, g1, g2, g3, g4, g5, next (the index after the match)]
BracketMatchAt(s, i) ==
    LET none == [found |-> FALSE, g1 |-> <<>>, g2 |-> <<>>, g3 |-> <<>>,
                 g4 |-> <<>>, g5 |-> <<>>, next |-> 0]
        a == SkipClass(s, i, WordChar)          \* "[" expected
        b == SkipClass(s, a + 1, WordChar)      \* "." expected
        c == SkipClass(s, b + 1, WordChar)
        d == SkipClass(s, c, SpaceChar)         \* the operator or "="
        hasOp == /\ d <= Len(s)
                 /\ s[d] \in {"+", "-", "*", "/"}
                 /\ MatchAt(s, d + 1, <<"=">>)
        q == IF hasOp THEN d + 1 ELSE d         \* "=" expected
        r == SkipClass(s, q + 1, SpaceChar)
        t == IndexFrom(s, <<";">>, r)
        \* ([^;]+) needs a character: when ";" follows the white space,
        \* \s* gives its last character back
        v == IF t > r THEN r ELSE r - 1
    IN  IF a = i \/ ~MatchAt(s, a, <<"[">>) THEN none
        ELSE IF b = a + 1 \/ ~MatchAt(s, b, <<".">>) THEN none
        ELSE IF c = b + 1 THEN none
        ELSE IF ~MatchAt(s, q, <<"=">>) THEN none
        ELSE IF t = 0 \/ v <= q THEN none
        ELSE [found |-> TRUE, g1 |-> Slice(s, i, a - 1), g2 |-> Slice(s, a + 1, b - 1),
              g3 |-> Slice(s, b + 1, c - 1), g4 |-> Slice(s, d, q - 1),
              g5 |-> Slice(s, v, t - 1), next |-> t + 1]

RECURSIVE BracketReplaceFrom(_, _)
\* bracketRegex.ReplaceAllString(processedLine, "$1[$2].$3 $4= $5;")
BracketReplaceFrom(s, i) ==
    IF i > Len(s) THEN <<>>
    ELSE LET m == BracketMatchAt(s, i)
         IN  IF m.found
             THEN m.g1 \o <<"[">> \o m.g2 \o <<"]", ".">> \o m.g3 \o <<" ">> \o m.g4
                  \o <<"=", " ">> \o m.g5 \o <<";">> \o BracketReplaceFrom(s, m.next)
             ELSE <<s[i]>> \o BracketReplaceFrom(s, i + 1)

\* a bracket rule that leaves the line as it is
BracketSkipped(s) == s

BracketReplace(s) == BracketReplaceFrom(s, 1)

\* ^\s*(identifier)\s*= at the start of s: <<start of the identifier, index
\* after it, index of "=">>, or <<0, 0, 0>>
AssignHead(s) ==
    LET n == SkipClass(s, 1, SpaceChar)
        e == SkipClass(s, n, IdentChar)
        a == SkipClass(s, e, SpaceChar)
    IN  IF n > Len(s) THEN <<0, 0, 0>>
        ELSE IF s[n] \notin IdentStart THEN <<0, 0, 0>>
        ELSE IF ~MatchAt(s, a, <<"=">>) THEN <<0, 0, 0>>
        ELSE <<n, e, a>>

\* assignmentRegex.FindStringSubmatch(line), assignmentRegex being
\* ^\s*(identifier)\s*=\s*[^=]: <<matched, group 1>>.  After "=", \s*[^=]
\* matches unless the line ends there or another "=" follows at once (white
\* space that \s* gives back is itself a [^=]).
AssignFind(s) ==
    LET h == AssignHead(s)
    IN  IF h[1] = 0 THEN <<FALSE, <<>>>>
        ELSE IF h[3] + 1 > Len(s) THEN <<FALSE, <<>>>>
        ELSE IF s[h[3] + 1] = "=" THEN <<FALSE, <<>>>>
        ELSE <<TRUE, Slice(s, h[1], h[2] - 1)>>

\* whitespaceRegex.ReplaceAllString(processedLine, "${1}let $2"),
\* whitespaceRegex being ^(\s*)(identifier\s*=)
InsertLet(s) ==
    LET h == AssignHead(s)
    IN  IF h[1] = 0 THEN s
        ELSE Slice(s, 1, h[1] - 1) \o LetSpace \o Slice(s, h[1], Len(s))

\* strings.Split(line, "//")[0]
CodePart(s) ==
    LET n == IndexFrom(s, SlashSlash, 1)
    IN  IF n = 0 THEN s ELSE Slice(s, 1, n - 1)

\* the map p5Functions, as the set of its keys
p5Functions ==
    {<<"s","e","t","u","p">>, <<"d","r","a","w">>, <<"m","o","u","s","e","P","r","e","s","s","e","d">>, <<"m","o","u","s","e","R","e","l","e","a","s","e","d">>,
     <<"k","e","y","P","r","e","s","s","e","d">>, <<"k","e","y","R","e","l","e","a","s","e","d">>, <<"w","i","n","d","o","w","R","e","s","i","z","e","d">>}

\* the condition under which the second pass declares the variable of line
Promotes(line, declared) ==
    LET m == AssignFind(line)
        codePart == CodePart(line)
    IN  /\ m[1]
        /\ ~Contains(codePart, KwFunction)
        /\ ~Contains(codePart, LetSpace)
        /\ ~Contains(codePart, VarSpace)
        /\ ~Contains(codePart, ConstSpace)
        /\ ~Contains(codePart, ForSpace)
        /\ ~Contains(codePart, IfSpace)
        /\ m[2] \notin declared
        /\ m[2] \notin p5Functions

\* processedLine after the canvas rule
CanvasRule(line) ==
    LET m == CanvasFind(line)
    IN  IF m.found THEN m.indent \o CreateCanvasOpen \o m.args \o <<")", ";">> ELSE line

\* processedLine after the parent rule, which reads line and overwrites
\* what the canvas rule wrote
ParentRule(line, processedLine) ==
    IF ParentMatch(line) THEN ParentReplace(line) ELSE processedLine

\* an undeclared-variable rule that rewrites every line
PromoteRuleAlways(line, processedLine, declared) == InsertLet(processedLine)

\* processedLine after the undeclared-variable rule
PromoteRule(line, processedLine, declared) ==
    IF Promotes(line, declared) THEN InsertLet(processedLine) ELSE processedLine

\* the line one iteration of the second pass appends to processedLines
RewriteLine(line, declared) ==
    PromoteRule(line, BracketReplace(ParentRule(line, CanvasRule(line))), declared)

\* a second pass that keeps only the variable it has just declared
RewriteDeclaredAlone(line, declared) ==
    IF Promotes(line, declared) THEN {AssignFind(line)[2]} ELSE declared

\* declaredVars after one iteration of the second pass
RewriteDeclared(line, declared) ==
    IF Promotes(line, declared) THEN declared \cup {AssignFind(line)[2]} ELSE declared

RECURSIVE ScanAll(_)
\* declaredVars after the first pass over lines
ScanAll(lines) ==
    IF lines = <<>> THEN {} ELSE ScanNames(Head(lines)) \cup ScanAll(Tail(lines))

RECURSIVE RewriteAll(_, _)
\* processedLines after the second pass over lines
RewriteAll(lines, declared) ==
    IF lines = <<>> THEN <<>>
    ELSE <<RewriteLine(Head(lines), declared)>>
         \o RewriteAll(Tail(lines), RewriteDeclared(Head(lines), declared))

PreprocessP5Code(code) ==
    LET lines == SplitLines(code)
    IN  JoinLines(RewriteAll(lines, ScanAll(lines)))

-----------------------------------------------------------------------------
(* AnalyzeP5Code *)

\* the alternation of functionRegex, in its order
LifecycleNames ==
    <<<<"s","e","t","u","p">>, <<"d","r","a","w">>, <<"m","o","u","s","e","P","r","e","s","s","e","d">>, <<"m","o","u","s","e","R","e","l","e","a","s","e","d">>,
      <<"k","e","y","P","r","e","s","s","e","d">>, <<"k","e","y","R","e","l","e","a","s","e","d">>, <<"w","i","n","d","o","w","R","e","s","i","z","e","d">>>>

\* functionRegex matched at i:
\* function\s+(setup|draw|mousePressed|...|windowResized)\s*\(
\* <<index of the name in LifecycleNames, index after the match>>, or <<0, 0>>.
\* No name is a prefix of another, so at most one alternative goes through.
FunctionMatchAt(s, i) ==
    LET w == i + Len(KwFunction)
        n == SkipClass(s, w, SpaceChar)
        ks == {k \in 1..Len(LifecycleNames) :
                  /\ MatchAt(s, n, LifecycleNames[k])
                  /\ MatchAt(s, SkipClass(s, n + Len(LifecycleNames[k]), SpaceChar), <<"(">>)}
    IN  IF ~MatchAt(s, i, KwFunction) THEN <<0, 0>>
        ELSE IF n = w \/ ks = {} THEN <<0, 0>>
        ELSE LET k == CHOOSE k \in ks : TRUE
             IN  <<k, SkipClass(s, n + Len(LifecycleNames[k]), SpaceChar) + 1>>

RECURSIVE FunctionsFrom(_, _)
\* the keys of the map functions: group 1 of every match of
\* functionRegex.FindAllStringSubmatch(code, -1)
FunctionsFrom(s, i) ==
    IF i > Len(s) THEN {}
    ELSE LET m == FunctionMatchAt(s, i)
         IN  IF m[1] > 0
             THEN {LifecycleNames[m[1]]} \cup FunctionsFrom(s, m[2])
             ELSE FunctionsFrom(s, i + 1)

\* the analyzer's canvasRegex matched at i:
\* createCanvas\s*\(\s*([^,)]+)(?:\s*,\s*([^)]+))?\s*\)
\* [found, g1, two (whether group 2 took part), g2]
CanvasCallAt(s, i) ==
    LET none == [found |-> FALSE, g1 |-> <<>>, two |-> FALSE, g2 |-> <<>>]
        a == SkipClass(s, i + Len(CreateCanvas), SpaceChar)   \* "(" expected
        b == SkipClass(s, a + 1, SpaceChar)
        c == SkipTo(s, b, {",", ")"})
        \* ([^,)]+) needs a character: \s* gives its last one back
        v == IF c > b THEN b ELSE b - 1
        d == SkipClass(s, c + 1, SpaceChar)
        e == IndexFrom(s, <<")">>, d)
        u == IF e > d THEN d ELSE d - 1
    IN  IF ~MatchAt(s, i, CreateCanvas) \/ ~MatchAt(s, a, <<"(">>) THEN none
        ELSE IF v <= a \/ c > Len(s) THEN none
        ELSE IF s[c] = ")"
             THEN [found |-> TRUE, g1 |-> Slice(s, v, c - 1), two |-> FALSE, g2 |-> <<>>]
        ELSE IF e = 0 \/ u <= c THEN none
        ELSE [found |-> TRUE, g1 |-> Slice(s, v, c - 1), two |-> TRUE,
              g2 |-> Slice(s, u, e - 1)]

RECURSIVE CanvasCallFrom(_, _)
\* canvasRegex.FindStringSubmatch(code): the leftmost match at or after i
CanvasCallFrom(s, i) ==
    IF i > Len(s) THEN CanvasCallAt(s, 0)
    ELSE IF CanvasCallAt(s, i).found THEN CanvasCallAt(s, i)
    ELSE CanvasCallFrom(s, i + 1)

CanvasCallFind(s) == CanvasCallFrom(s, 1)

ErrMissingSetup == "Missing setup() function"
ErrMissingDraw == "Missing draw() function"

\* a validation that tests for draw() alone
ValidationErrorsDrawOnly(functions) ==
    IF <<"d","r","a","w">> \notin functions THEN <<ErrMissingDraw>> ELSE <<>>

\* a validation that reports a missing draw() before a missing setup()
ValidationErrorsDrawFirst(functions) ==
    (IF <<"d","r","a","w">> \notin functions THEN <<ErrMissingDraw>> ELSE <<>>)
    \o (IF <<"s","e","t","u","p">> \notin functions THEN <<ErrMissingSetup>> ELSE <<>>)

\* the "Basic validation" block: the slice errors
ValidationErrors(functions) ==
    (IF <<"s","e","t","u","p">> \notin functions THEN <<ErrMissingSetup>> ELSE <<>>)
    \o (IF <<"d","r","a","w">> \notin functions THEN <<ErrMissingDraw>> ELSE <<>>)

\* a canvas argument stored as captured, white space included
CanvasArgRaw(group) == group

\* strings.TrimSpace(matches[k]), the value stored for a canvas argument
CanvasArg(group) == TrimSpace(group)

\* the returned map; the keys canvasWidth and canvasHeight are set only on
\* the branches that set them
AnalyzeP5Code(code) ==
    LET functions == FunctionsFrom(code, 1)
        has(name) == name \in functions
        m == CanvasCallFind(code)
        errors == ValidationErrors(functions)
        base == [functions |-> functions,
                 hasSetup |-> has(<<"s","e","t","u","p">>),
                 hasDraw |-> has(<<"d","r","a","w">>),
                 hasInteraction |-> \/ has(<<"m","o","u","s","e","P","r","e","s","s","e","d">>) \/ has(<<"m","o","u","s","e","R","e","l","e","a","s","e","d">>)
                                    \/ has(<<"k","e","y","P","r","e","s","s","e","d">>) \/ has(<<"k","e","y","R","e","l","e","a","s","e","d">>),
                 hasCanvas |-> m.found,
                 errors |-> errors,
                 isValid |-> Len(errors) = 0]
        width == IF m.found THEN [canvasWidth |-> CanvasArg(m.g1)] ELSE <<>>
        height == IF m.found /\ m.two THEN [canvasHeight |-> CanvasArg(m.g2)] ELSE <<>>
    IN  base @@ width @@ height

-----------------------------------------------------------------------------
(* Texts the sanitizers are given: what the model API may answer *)

\* all sequences of at most n elements of S
RECURSIVE SeqsUpTo(_, _)
SeqsUpTo(S, n) ==
    IF n = 0 THEN {<<>>}
    ELSE LET shorter == SeqsUpTo(S, n - 1)
         IN  shorter \cup {Append(q, x) : q \in shorter, x \in S}

\* text before the fence
Leads == {<<>>, <<" ","\n">>, <<"/","/"," ","c","\n">>}
\* opening fences, with recognised, differently cased and foreign tags
Opens == {<<>>, <<Tick,Tick,Tick,"\n">>, <<Tick,Tick,Tick,"j","s","\n">>, <<Tick,Tick,Tick,"j","a","v","a","s","c","r","i","p","t","\n">>,
          <<Tick,Tick,Tick,"J","S","\n">>, <<Tick,Tick,Tick,"J","a","v","a","S","c","r","i","p","t","\n">>, <<Tick,Tick,Tick,"p","y","\n">>}
\* pieces of sketch code
BodyParts == {<<"f","(",")",";">>, <<"\n","\n","g","(",")",";">>, <<".","a">>, <<"n","e","w"," ","p","5","(","f","u","n","c","t","i","o","n","(","p",")"," ","{">>}
\* closing fences
Closes == {<<>>, <<Tick,Tick,Tick>>, <<"\n",Tick,Tick,Tick>>}
\* text after the fence: white space, or a second fenced block
Trails == {<<>>, <<"\n">>, <<"\n",Tick,Tick,Tick,"j","s","\n","h","(",")",";","\n",Tick,Tick,Tick>>}

SanitizeInputs ==
    {l \o o \o Concat(b) \o c \o t :
        l \in Leads, o \in Opens, b \in SeqsUpTo(BodyParts, MaxBody),
        c \in Closes, t \in Trails}

-----------------------------------------------------------------------------
(* Sketches PreprocessP5Code is given, line by line *)

PreLines ==
    {<<"x"," ","="," ","5",";">>,
     <<" "," ","x"," ","="," ","6",";">>,
     <<"x"," ","="," ","b","u","l","l","e","t"," ","+"," ","1",";">>,
     <<"x"," ","="," ","c",".","p","a","r","e","n","t","(","d",")",";">>,
     <<"l","e","t"," ","x"," ","="," ","1",";">>,
     <<"y"," ","="," ","x",";"," ","/","/"," ","s","e","t">>,
     <<"l","e","t"," ","c","a","n","v","a","s"," ","="," ","c","r","e","a","t","e","C","a","n","v","a","s","(","4","0","0",","," ","3","0","0",")",";">>,
     <<" "," ","v","a","r"," ","c","a","n","v","a","s"," ","="," ","c","r","e","a","t","e","C","a","n","v","a","s","(","w",","," ","h",")",";"," ","/","/"," ","c">>,
     <<"c","o","n","s","t"," ","c","a","n","v","a","s"," ","="," ","c","r","e","a","t","e","C","a","n","v","a","s","(","4","0","0",","," ","3","0","0",")",";"," ","c","a","n","v","a","s",".","p","a","r","e","n","t","(","'","c","'",")",";">>,
     <<"l","e","t"," ","c","a","n","v","a","s"," ","="," ","c","r","e","a","t","e","C","a","n","v","a","s","(","m","i","n","(","a",","," ","b",")",","," ","3","0","0",")",";">>,
     <<"a","[","i",".","x"," ","+","="," ","1",";">>,
     <<"f","u","n","c","t","i","o","n"," ","d","r","a","w","(",")"," ","{">>,
     <<"l","e","t"," ","x",","," ","y",";">>,
     <<"f","u","n","c","t","i","o","n"," ","x","(",")"," ","{","}"," ","f","u","n","c","t","i","o","n"," ","y","(",")"," ","{","}">>,
     <<" "," ","c",".","p","a","r","e","n","t","(","f","(","d",")",")",";">>,
     <<"x"," ","=",">"," ","x"," ","*"," ","2",";">>,
     <<"y"," ","="," ","1",",">>,
     <<"d","r","a","w"," ","="," ","f",";">>,
     <<"y"," ","="," ","m","o","t","i","f"," ","+"," ","1",";">>,
     <<"x"," ","=","="," ","5",";">>,
     <<" "," ","c","[","i","]"," ","="," ","d",";"," ","/","/"," ","o","k">>}

\* array-access lines: the index left open or closed, every operator
BracketArrays == {<<"a">>, <<"p","t","s">>}
BracketOps == {<<>>, <<"+">>, <<"-">>, <<"*">>, <<"/">>}
BracketValues == {<<"1">>, <<"b"," ","+"," ","1">>}

OpenLine(arr, op, val) == arr \o <<"[","i",".","x"," ">> \o op \o <<"="," ">> \o val \o <<";">>
ClosedLine(arr, op, val) == arr \o <<"[","i","]",".","x"," ">> \o op \o <<"="," ">> \o val \o <<";">>

OpenLines == {OpenLine(arr, op, val) : arr \in BracketArrays, op \in BracketOps, val \in BracketValues}
ClosedLines == {ClosedLine(<<"a">>, op, val) : op \in BracketOps, val \in BracketValues}

BracketInputs == {JoinLines(ls) : ls \in SeqsUpTo(OpenLines \cup ClosedLines, MaxLines)}

PreprocessInputs == {JoinLines(ls) : ls \in SeqsUpTo(PreLines, MaxLines)}

-----------------------------------------------------------------------------
(* Sketches AnalyzeP5Code is given *)

AnalyzeParts ==
    {<<"f","u","n","c","t","i","o","n"," ","s","e","t","u","p","(",")"," ","{">>,
     <<"f","u","n","c","t","i","o","n"," ","d","r","a","w","(",")"," ","{">>,
     <<"f","u","n","c","t","i","o","n","\n"," ","d","r","a","w"," ","(">>,
     <<"f","u","n","c","t","i","o","n"," ","d","r","a","w","i","n","g","(",")"," ","{">>,
     <<"f","u","n","c","t","i","o","n"," ","s","e","t","u","p">>,
     <<"f","u","n","c","t","i","o","n"," ","m","o","u","s","e","P","r","e","s","s","e","d","(",")"," ","{">>,
     <<"c","r","e","a","t","e","C","a","n","v","a","s","(","4","0","0",","," ","3","0","0",")",";">>,
     <<"c","r","e","a","t","e","C","a","n","v","a","s","("," ","4","0"," ",",","3","0"," ",")",";">>,
     <<"c","r","e","a","t","e","C","a","n","v","a","s","(","4","0","0",")",";">>,
     <<"}","\n">>}

AnalyzeInputs == {Concat(ps) : ps \in SeqsUpTo(AnalyzeParts, MaxParts)}

-----------------------------------------------------------------------------
(* State *)

NoMetadata == [none |-> TRUE]

SanitizeRevs == {"instance", "trim", "internal"}

\* the text the next sanitizer call is given
Current == IF calls = <<>> THEN raw ELSE calls[Len(calls)]

IdlePreprocess ==
    /\ pc = "idle"
    /\ lineNo = 0
    /\ declaredVars = {}
    /\ processedLines = <<>>
    /\ result = <<>>

IdleSanitize == calls = <<>>

NoRequest == [route |-> "none"]
NoReply == [status |-> 0]

\* no concurrent call is running, no request has come in
IdleServer ==
    /\ workers = <<>>
    /\ animations = <<>>
    /\ users = {}
    /\ issued = {}
    /\ request = NoRequest
    /\ reply = NoReply

InitSanitize ==
    /\ rev \in SanitizeRevs
    /\ raw \in SanitizeInputs
    /\ IdleSanitize
    /\ IdlePreprocess
    /\ metadata = NoMetadata
    /\ IdleServer

-----------------------------------------------------------------------------
(* Actions: the sanitizer calls of the handlers *)

\* handler.go: animation = sanitizeSketchCode(animation), instance-mode revision
CallSanitizeSketchCode ==
    /\ rev = "instance"
    /\ Len(calls) < MaxCalls
    /\ calls' = Append(calls, sanitizeSketchCode(Current))
    /\ UNCHANGED <<rev, raw, pc, lineNo, declaredVars, processedLines, result, metadata>>
    /\ UNCHANGED serverVars

\* handler.go: animation = sanitizeSketchCode(animation), revision of utils.go
CallSanitizeSketchCodeTrim ==
    /\ rev = "trim"
    /\ Len(calls) < MaxCalls
    /\ calls' = Append(calls, sanitizeSketchCodeTrim(Current))
    /\ UNCHANGED <<rev, raw, pc, lineNo, declaredVars, processedLines, result, metadata>>
    /\ UNCHANGED serverVars

\* animation = SanitizeAnimationCode(animation), package internal
CallSanitizeAnimationCode ==
    /\ rev = "internal"
    /\ Len(calls) < MaxCalls
    /\ calls' = Append(calls, SanitizeAnimationCode(Current))
    /\ UNCHANGED <<rev, raw, pc, lineNo, declaredVars, processedLines, result, metadata>>
    /\ UNCHANGED serverVars

NextSanitize ==
    \/ CallSanitizeSketchCode
    \/ CallSanitizeSketchCodeTrim
    \/ CallSanitizeAnimationCode

SpecSanitize == InitSanitize /\ [][NextSanitize]_vars

-----------------------------------------------------------------------------
(* Actions: one call of PreprocessP5Code, loop iteration by loop iteration *)

InitPreprocess ==
    /\ rev = "preprocess"
    /\ raw \in PreprocessInputs
    /\ IdleSanitize
    /\ IdlePreprocess
    /\ metadata = NoMetadata
    /\ IdleServer

\* lines := strings.Split(code, "\n")
lines == SplitLines(raw)

\* entry: processedLines and declaredVars are made empty
EnterPreprocess ==
    /\ rev = "preprocess"
    /\ pc = "idle"
    /\ pc' = "scan"
    /\ lineNo' = 1
    /\ declaredVars' = {}
    /\ processedLines' = <<>>
    /\ UNCHANGED <<rev, raw, calls, result, metadata>>
    /\ UNCHANGED serverVars

\* one iteration of the first pass
ScanLine ==
    /\ pc = "scan"
    /\ declaredVars' = declaredVars \cup ScanNames(lines[lineNo])
    /\ IF lineNo < Len(lines)
       THEN pc' = "scan" /\ lineNo' = lineNo + 1
       ELSE pc' = "rewrite" /\ lineNo' = 1
    /\ UNCHANGED <<rev, raw, calls, processedLines, result, metadata>>
    /\ UNCHANGED serverVars

\* one iteration of the second pass
RewriteStep ==
    /\ pc = "rewrite"
    /\ processedLines' = Append(processedLines, RewriteLine(lines[lineNo], declaredVars))
    /\ declaredVars' = RewriteDeclared(lines[lineNo], declaredVars)
    /\ IF lineNo < Len(lines)
       THEN pc' = "rewrite" /\ lineNo' = lineNo + 1
       ELSE pc' = "join" /\ lineNo' = lineNo
    /\ UNCHANGED <<rev, raw, calls, result, metadata>>
    /\ UNCHANGED serverVars

\* return strings.Join(processedLines, "\n")
ReturnPreprocess ==
    /\ pc = "join"
    /\ result' = JoinLines(processedLines)
    /\ pc' = "done"
    /\ UNCHANGED <<rev, raw, calls, lineNo, declaredVars, processedLines, metadata>>
    /\ UNCHANGED serverVars

NextPreprocess ==
    \/ EnterPreprocess
    \/ ScanLine
    \/ RewriteStep
    \/ ReturnPreprocess

SpecPreprocess == InitPreprocess /\ [][NextPreprocess]_vars

\* the same call, given sketches of array-access lines
InitBracket ==
    /\ rev = "preprocess"
    /\ raw \in BracketInputs
    /\ IdleSanitize
    /\ IdlePreprocess
    /\ metadata = NoMetadata
    /\ IdleServer

SpecBracket == InitBracket /\ [][NextPreprocess]_vars

-----------------------------------------------------------------------------
(* Actions: one call of AnalyzeP5Code *)

InitAnalyze ==
    /\ rev = "analyze"
    /\ raw \in AnalyzeInputs
    /\ IdleSanitize
    /\ IdlePreprocess
    /\ metadata = NoMetadata
    /\ IdleServer

CallAnalyzeP5Code ==
    /\ rev = "analyze"
    /\ metadata = NoMetadata
    /\ metadata' = AnalyzeP5Code(raw)
    /\ UNCHANGED <<rev, raw, calls, pc, lineNo, declaredVars, processedLines, result>>
    /\ UNCHANGED serverVars

NextAnalyze == CallAnalyzeP5Code

SpecAnalyze == InitAnalyze /\ [][NextAnalyze]_vars

-----------------------------------------------------------------------------
(* Concurrent calls of PreprocessP5Code, one per request in flight *)

\* the requests in flight
Workers == {"w1", "w2"}

MaxConcLines == 2

ConcLines == {<<"x"," ","="," ","5",";">>, <<"l","e","t"," ","x"," ","="," ","1",";">>}

ConcInputs == {JoinLines(ls) : ls \in SeqsUpTo(ConcLines, MaxConcLines)}

\* the locals of a call that has not started
IdleWorker(code) ==
    [code |-> code, pc |-> "idle", lineNo |-> 0, declaredVars |-> {},
     processedLines |-> <<>>, result |-> <<>>]

InitConcurrent ==
    /\ rev = "concurrent"
    /\ raw = <<>>
    /\ IdleSanitize
    /\ IdlePreprocess
    /\ metadata = NoMetadata
    /\ workers \in [Workers -> {IdleWorker(code) : code \in ConcInputs}]
    /\ animations = <<>>
    /\ users = {}
    /\ issued = {}
    /\ request = NoRequest
    /\ reply = NoReply

\* a table read by the call of w although every call made its own
TableShared(ws, w) == UNION {ws[v].declaredVars : v \in DOMAIN ws}

\* declaredVars as the call of w reads it: the map it made itself
TableOf(ws, w) == ws[w].declaredVars

\* lines := strings.Split(code, "\n"), in the call of w
WorkerLines(w) == SplitLines(workers[w].code)

\* entry of the call of w: its own processedLines and declaredVars
WorkerEnter(w) ==
    /\ rev = "concurrent"
    /\ workers[w].pc = "idle"
    /\ workers' = [workers EXCEPT ![w] =
                      [@ EXCEPT !.pc = "scan", !.lineNo = 1,
                                !.declaredVars = {}, !.processedLines = <<>>]]
    /\ UNCHANGED <<sketchVars, animations, users, issued, request, reply>>

\* one iteration of the first pass of the call of w
WorkerScan(w) ==
    /\ rev = "concurrent"
    /\ workers[w].pc = "scan"
    /\ LET me   == workers[w]
           last == me.lineNo = Len(WorkerLines(w))
       IN  workers' = [workers EXCEPT ![w] =
               [me EXCEPT !.declaredVars =
                              TableOf(workers, w) \cup ScanNames(WorkerLines(w)[me.lineNo]),
                          !.pc = IF last THEN "rewrite" ELSE "scan",
                          !.lineNo = IF last THEN 1 ELSE me.lineNo + 1]]
    /\ UNCHANGED <<sketchVars, animations, users, issued, request, reply>>

\* one iteration of the second pass of the call of w
WorkerRewrite(w) ==
    /\ rev = "concurrent"
    /\ workers[w].pc = "rewrite"
    /\ LET me   == workers[w]
           line == WorkerLines(w)[me.lineNo]
           last == me.lineNo = Len(WorkerLines(w))
       IN  workers' = [workers EXCEPT ![w] =
               [me EXCEPT !.processedLines =
                              Append(me.processedLines, RewriteLine(line, TableOf(workers, w))),
                          !.declaredVars = RewriteDeclared(line, TableOf(workers, w)),
                          !.pc = IF last THEN "join" ELSE "rewrite",
                          !.lineNo = IF last THEN me.lineNo ELSE me.lineNo + 1]]
    /\ UNCHANGED <<sketchVars, animations, users, issued, request, reply>>

\* return strings.Join(processedLines, "\n"), in the call of w
WorkerReturn(w) ==
    /\ rev = "concurrent"
    /\ workers[w].pc = "join"
    /\ LET me == workers[w]
       IN  workers' = [workers EXCEPT ![w] =
               [me EXCEPT !.result = JoinLines(me.processedLines), !.pc = "done"]]
    /\ UNCHANGED <<sketchVars, animations, users, issued, request, reply>>

NextConcurrent ==
    \E w \in Workers :
        \/ WorkerEnter(w)
        \/ WorkerScan(w)
        \/ WorkerRewrite(w)
        \/ WorkerReturn(w)

SpecConcurrent == InitConcurrent /\ [][NextConcurrent]_vars

-----------------------------------------------------------------------------
(* The table animations, saveAnimation and getAnimation and their routes *)

\* the revisions of the save and retrieve path: handler.go with db.go, in
\* its two router revisions, and package internal
StoreRevs == {"store.main", "store.routes", "store.internal"}

\* a value of the column description TEXT, as sql.NullString holds it
Null == [valid |-> FALSE, text |-> <<>>]
NotNull(text) == [valid |-> TRUE, text |-> text]

\* the ids the random generator may draw, and an id no row has
RandomIds == {"id1", "id2"}
LegacyId == "id0"
UnknownId == "id9"

SaveCodes == {<<>>, <<"f","(",")",";">>, <<"g","(",")",";">>}
SaveDescriptions == {<<>>, <<"d">>}

\* a row written before the column description was added holds NULL in it
LegacyRow == [code |-> <<"o","l","d","(",")",";">>, description |-> Null]

Row(code, description) == [code |-> code, description |-> NotNull(description)]

InitStore ==
    /\ rev \in StoreRevs
    /\ raw = <<>>
    /\ IdleSanitize
    /\ IdlePreprocess
    /\ metadata = NoMetadata
    /\ workers = <<>>
    /\ animations \in {<<>>, LegacyId :> LegacyRow}
    /\ users = {}
    /\ issued = {}
    /\ request = NoRequest
    /\ reply = NoReply

\* an INSERT that replaces the row another save wrote under the same id
DbInsertOrReplace(table, id, row) ==
    [ok |-> TRUE,
     table |-> [k \in DOMAIN table \cup {id} |-> IF k = id THEN row ELSE table[k]]]

\* INSERT INTO animations (id, code, description): id is the PRIMARY KEY, the
\* statement fails when a row has the id
DbInsert(table, id, row) ==
    IF id \in DOMAIN table
    THEN [ok |-> FALSE, table |-> table]
    ELSE [ok |-> TRUE, table |-> table @@ (id :> row)]

\* saveAnimation of db.go: <<ok, table>>
saveAnimation(table, id, code, description) ==
    IF code = <<>>
    THEN [ok |-> FALSE, table |-> table]
    ELSE DbInsert(table, id, Row(code, description))

\* SaveAnimation of package internal
SaveAnimation(table, id, code, description) ==
    DbInsert(table, id, Row(code, description))

\* getAnimation of db.go: [ok, code, description]; a NULL description is
\* returned as ""
getAnimation(table, id) ==
    IF id = "" \/ id \notin DOMAIN table
    THEN [ok |-> FALSE, notFound |-> TRUE, code |-> <<>>, description |-> <<>>]
    ELSE [ok |-> TRUE, notFound |-> FALSE, code |-> table[id].code,
          description |-> IF table[id].description.valid
                          THEN table[id].description.text ELSE <<>>]

\* GetAnimation of package internal: Scan into a string fails on NULL
GetAnimation(table, id) ==
    IF id \notin DOMAIN table
    THEN [ok |-> FALSE, notFound |-> TRUE, code |-> <<>>, description |-> <<>>]
    ELSE IF ~table[id].description.valid
    THEN [ok |-> FALSE, notFound |-> FALSE, code |-> <<>>, description |-> <<>>]
    ELSE [ok |-> TRUE, notFound |-> FALSE, code |-> table[id].code,
          description |-> table[id].description.text]

\* animationExists of db.go, AnimationExists of package internal
animationExists(table, id) == id # "" /\ id \in DOMAIN table
AnimationExists(table, id) == id \in DOMAIN table

SaveResult(table, id, code, description) ==
    IF rev = "store.internal"
    THEN SaveAnimation(table, id, code, description)
    ELSE saveAnimation(table, id, code, description)

\* saveAnimationHandler: POST /save-animation with the body (code, description)
SaveAnimationHandler ==
    /\ rev \in StoreRevs
    /\ \E code \in SaveCodes, description \in SaveDescriptions, id \in RandomIds :
           LET r == SaveResult(animations, id, code, description)
           IN  /\ request' = [route |-> "save", id |-> "", code |-> code,
                              description |-> description]
               /\ animations' = r.table
               /\ IF r.ok
                  THEN /\ reply' = [status |-> 200, id |-> id, code |-> <<>>,
                                    description |-> <<>>]
                       /\ issued' = issued \cup
                              {[id |-> id, code |-> code, description |-> description]}
                  ELSE /\ reply' = [status |-> 500, id |-> "", code |-> <<>>,
                                    description |-> <<>>]
                       /\ UNCHANGED issued
    /\ UNCHANGED <<sketchVars, workers, users>>

\* the status and body getAnimationHandler answers with, in each revision
GetReply(table, id) ==
    LET none(status) == [status |-> status, id |-> "", code |-> <<>>, description |-> <<>>]
    IN  IF rev = "store.main"
        THEN IF ~animationExists(table, id) THEN none(404)
             ELSE LET r == getAnimation(table, id)
                  IN  IF ~r.ok THEN none(500)
                      ELSE [status |-> 200, id |-> id, code |-> r.code,
                            description |-> r.description]
        ELSE IF rev = "store.routes"
        THEN LET r == getAnimation(table, id)
             IN  IF ~r.ok THEN none(404)
                 ELSE [status |-> 200, id |-> "", code |-> r.code,
                       description |-> r.description]
        ELSE IF ~AnimationExists(table, id) THEN none(404)
             ELSE LET r == GetAnimation(table, id)
                  IN  IF ~r.ok THEN none(500)
                      ELSE [status |-> 200, id |-> id, code |-> r.code,
                            description |-> r.description]

\* getAnimationHandler: GET /animation/{id}
GetAnimationHandler ==
    /\ rev \in StoreRevs
    /\ \E id \in RandomIds \cup {LegacyId, UnknownId} :
           /\ request' = [route |-> "get", id |-> id, code |-> <<>>, description |-> <<>>]
           /\ reply' = GetReply(animations, id)
    /\ UNCHANGED <<sketchVars, workers, animations, users, issued>>

NextStore ==
    \/ SaveAnimationHandler
    \/ GetAnimationHandler

SpecStore == InitStore /\ [][NextStore]_vars

-----------------------------------------------------------------------------
(* The generate and fix routes: the model call and the sanitizer after it *)

\* the revisions of the route: handler.go over the sanitizer of part_001 or
\* of utils.go, and package internal over SanitizeAnimationCode
GenerateRevs == {"generate.instance", "generate.trim", "generate.internal"}

\* the revisions that have the route /fix-animation
FixRevs == {"generate.instance", "generate.trim"}

\* the texts the model may answer with
ModelTexts == SanitizeInputs

\* the values of a required field of the request body
FieldValues == {<<>>, <<"d">>}

InitGenerate ==
    /\ rev \in GenerateRevs
    /\ raw = <<>>
    /\ IdleSanitize
    /\ IdlePreprocess
    /\ metadata = NoMetadata
    /\ IdleServer

\* the sanitizer the handler of this revision calls
RouteSanitizer(text) ==
    CASE rev = "generate.instance" -> sanitizeSketchCode(text)
      [] rev = "generate.trim"     -> sanitizeSketchCodeTrim(text)
      [] OTHER                     -> SanitizeAnimationCode(text)

\* the response after the validation of the body: no API key, a failed
\* model call, or the sanitized text of the model
ModelReply(keySet, model) ==
    IF ~keySet THEN [status |-> 500, code |-> <<>>]
    ELSE IF ~model.ok THEN [status |-> 500, code |-> <<>>]
    ELSE [status |-> 200, code |-> RouteSanitizer(model.text)]

\* what the model call returns: an error, or any text
ModelOutcomes ==
    {[ok |-> FALSE, text |-> <<>>]} \cup {[ok |-> TRUE, text |-> t] : t \in ModelTexts}

\* animationHandler: POST /generate-animation
AnimationHandler ==
    /\ rev \in GenerateRevs
    /\ request = NoRequest
    /\ \E description \in FieldValues, keySet \in BOOLEAN, model \in ModelOutcomes :
           /\ request' = [route |-> "generate", description |-> description,
                          brokenCode |-> <<>>, errorMessage |-> <<>>]
           /\ reply' = IF description = <<>>
                       THEN [status |-> 400, code |-> <<>>]
                       ELSE ModelReply(keySet, model)
    /\ UNCHANGED <<sketchVars, workers, animations, users, issued>>

\* fixAnimationHandler: POST /fix-animation
FixAnimationHandler ==
    /\ rev \in FixRevs
    /\ request = NoRequest
    /\ \E brokenCode \in FieldValues, errorMessage \in FieldValues,
          keySet \in BOOLEAN, model \in ModelOutcomes :
           /\ request' = [route |-> "fix", description |-> <<>>,
                          brokenCode |-> brokenCode, errorMessage |-> errorMessage]
           /\ reply' = IF brokenCode = <<>> \/ errorMessage = <<>>
                       THEN [status |-> 400, code |-> <<>>]
                       ELSE ModelReply(keySet, model)
    /\ UNCHANGED <<sketchVars, workers, animations, users, issued>>

NextGenerate ==
    \/ AnimationHandler
    \/ FixAnimationHandler

SpecGenerate == InitGenerate /\ [][NextGenerate]_vars

-----------------------------------------------------------------------------
(* The protected routes of package internal: CorsMiddleware, AuthMiddleware *)

ProtectedRoutes == {"/generate-animation", "/save-animation", "/save-mood"}

\* the methods the protected routes are registered for
RouteMethods == {"POST", "OPTIONS"}

\* what jwt.Parse and the claims of a token are decided by.  A token is one
\* character of a header text, named by its id.
TokenOf ==
    [tokGood      |-> [parses |-> TRUE,  alg |-> "HS256", key |-> "secret", expired |-> FALSE, userId |-> "string"],
     tokHS512     |-> [parses |-> TRUE,  alg |-> "HS512", key |-> "secret", expired |-> FALSE, userId |-> "string"],
     tokRS256     |-> [parses |-> TRUE,  alg |-> "RS256", key |-> "secret", expired |-> FALSE, userId |-> "string"],
     tokNone      |-> [parses |-> TRUE,  alg |-> "none",  key |-> "secret", expired |-> FALSE, userId |-> "string"],
     tokForged    |-> [parses |-> TRUE,  alg |-> "HS256", key |-> "other",  expired |-> FALSE, userId |-> "string"],
     tokExpired   |-> [parses |-> TRUE,  alg |-> "HS256", key |-> "secret", expired |-> TRUE,  userId |-> "string"],
     tokNumberId  |-> [parses |-> TRUE,  alg |-> "HS256", key |-> "secret", expired |-> FALSE, userId |-> "number"],
     tokNoId      |-> [parses |-> TRUE,  alg |-> "HS256", key |-> "secret", expired |-> FALSE, userId |-> "absent"],
     tokGarbage   |-> [parses |-> FALSE, alg |-> "none",  key |-> "other",  expired |-> FALSE, userId |-> "absent"]]

TokenIds == DOMAIN TokenOf

\* the signing methods of type *jwt.SigningMethodHMAC
HmacMethods == {"HS256", "HS384", "HS512"}

Bearer == <<"B","e","a","r","e","r">>
Space == <<" ">>

\* the values of the Authorization header
AuthHeaders ==
    {<<>>, Bearer, <<"B","e","a","r","e","r"," ">>}
    \cup UNION {{<<t>>,
                 Bearer \o Space \o <<t>>,
                 Bearer \o Space \o Space \o <<t>>,
                 Bearer \o Space \o <<t>> \o Space,
                 <<"b","e","a","r","e","r"," ">> \o <<t>>,
                 <<"B","a","s","i","c"," ">> \o <<t>>} : t \in TokenIds}

RECURSIVE SplitSpaceFrom(_, _)
\* strings.Split(authHeader, " "), from index i on
SplitSpaceFrom(s, i) ==
    LET n == IndexFrom(s, Space, i)
    IN  IF n = 0 THEN <<Slice(s, i, Len(s))>>
        ELSE <<Slice(s, i, n - 1)>> \o SplitSpaceFrom(s, n + 1)

SplitSpace(s) == SplitSpaceFrom(s, 1)

\* jwt.Parse(tokenString, keyFunc) returns no error: the token parses, the
\* key function accepts its method and finds a secret, the signature is the
\* one the secret gives, and the token has not expired
ParseSucceeds(tokenString, secretSet) ==
    /\ Len(tokenString) = 1
    /\ tokenString[1] \in TokenIds
    /\ LET t == TokenOf[tokenString[1]]
       IN  /\ t.parses
           /\ t.alg \in HmacMethods
           /\ secretSet
           /\ t.key = "secret"
           /\ ~t.expired

\* claims["userId"].(string) succeeds
HasStringUserId(tokenString) == TokenOf[tokenString[1]].userId = "string"

\* a CorsMiddleware that hands every request on
CorsNeverAnswers(method) == FALSE

\* CorsMiddleware answers the preflight request itself, with 204
CorsAnswers(method) == method = "OPTIONS"

\* AuthMiddleware: the status it answers with, or 0 when it calls next
AuthStatus(method, authHeader, secretSet) ==
    LET bearerToken == SplitSpace(authHeader)
    IN  IF method = "OPTIONS" THEN 0
        ELSE IF authHeader = <<>> THEN 401
        ELSE IF Len(bearerToken) # 2 \/ bearerToken[1] # Bearer THEN 401
        ELSE IF ~ParseSucceeds(bearerToken[2], secretSet) THEN 401
        ELSE IF ~HasStringUserId(bearerToken[2]) THEN 401
        ELSE 0

\* the statuses a handler may answer with
HandlerStatuses == {200, 400, 500}

InitAuth ==
    /\ rev = "auth.internal"
    /\ raw = <<>>
    /\ IdleSanitize
    /\ IdlePreprocess
    /\ metadata = NoMetadata
    /\ IdleServer

\* one request to a protected route through CorsMiddleware, LoggingMiddleware
\* and AuthMiddleware to its handler
ServeProtected ==
    /\ rev = "auth.internal"
    /\ request = NoRequest
    /\ \E route \in ProtectedRoutes, method \in RouteMethods,
          authHeader \in AuthHeaders, secretSet \in BOOLEAN, status \in HandlerStatuses :
           /\ request' = [route |-> route, method |-> method,
                          authHeader |-> authHeader, secretSet |-> secretSet]
           /\ reply' =
                  IF CorsAnswers(method)
                  THEN [status |-> 204, by |-> "cors", handlerRan |-> FALSE]
                  ELSE IF AuthStatus(method, authHeader, secretSet) # 0
                  THEN [status |-> AuthStatus(method, authHeader, secretSet),
                        by |-> "auth", handlerRan |-> FALSE]
                  ELSE [status |-> status, by |-> "handler", handlerRan |-> TRUE]
    /\ UNCHANGED <<sketchVars, workers, animations, users, issued>>

NextAuth == ServeProtected

SpecAuth == InitAuth /\ [][NextAuth]_vars

-----------------------------------------------------------------------------
(* sanitizeSketchCode, statement by statement: the text after the fence    *)
(* extraction and the trim, after each pass of the dot loop, after the wrap *)

\* the pieces the texts are made of: words, dotted names, non-word characters
DotParts == {<<"x">>, <<".","a">>, <<" ">>, <<".">>, <<"(">>}

DotInputs == {Concat(ps) : ps \in SeqsUpTo(DotParts, MaxDotParts)}

\* for i := 0; i < 2; i++
DotPasses == 2

InitDot ==
    /\ rev = "dot"
    /\ raw \in DotInputs
    /\ IdleSanitize
    /\ IdlePreprocess
    /\ metadata = NoMetadata
    /\ IdleServer

\* code = matches[1] or raw; code = strings.TrimSpace(code)
DotExtract ==
    /\ rev = "dot"
    /\ calls = <<>>
    /\ LET m == FenceFind(raw)
       IN  calls' = <<TrimSpace(IF m[1] THEN m[2] ELSE raw)>>
    /\ UNCHANGED <<rev, raw, pc, lineNo, declaredVars, processedLines, result, metadata>>
    /\ UNCHANGED serverVars

\* one iteration of the loop: code = dotRe.ReplaceAllString(code, `$1p.$2`)
DotPass ==
    /\ rev = "dot"
    /\ Len(calls) \in 1..DotPasses
    /\ calls' = Append(calls, DotReplace(Current))
    /\ UNCHANGED <<rev, raw, pc, lineNo, declaredVars, processedLines, result, metadata>>
    /\ UNCHANGED serverVars

\* the wrap and the return
DotWrap ==
    /\ rev = "dot"
    /\ Len(calls) = DotPasses + 1
    /\ calls' = Append(calls, WrapInstance(Current))
    /\ UNCHANGED <<rev, raw, pc, lineNo, declaredVars, processedLines, result, metadata>>
    /\ UNCHANGED serverVars

NextDot ==
    \/ DotExtract
    \/ DotPass
    \/ DotWrap

SpecDot == InitDot /\ [][NextDot]_vars

-----------------------------------------------------------------------------
(* The table users, POST /register and POST /login                         *)

\* the requests that register at the same time
RegisterRequests == {"r1", "r2"}

Emails == {"a@x", "b@x"}
\* a password bcrypt refuses: longer than 72 bytes
LongPassword == "pw73"
\* the ids generateRandomID may draw
UserIds == {"u1", "u2"}

\* a value of the column username VARCHAR(255), NULL or a text
NoUsername == [valid |-> FALSE, text |-> ""]
Username(text) == [valid |-> TRUE, text |-> text]

\* bcrypt.GenerateFromPassword: the hash, and whether it fails
Hash(password) == [alg |-> "bcrypt", of |-> password]
HashFails(password) == password = LongPassword

\* a comparison that accepts every password
CompareAlways(storedHash, password) == TRUE

\* bcrypt.CompareHashAndPassword(storedHash, password) returns nil
CompareHashAndPassword(storedHash, password) == storedHash = Hash(password)

\* a row written before the column username was added holds NULL in it
LegacyUser ==
    [id |-> "u0", email |-> "a@x", username |-> NoUsername, passwordHash |-> Hash("pw1")]

\* the bodies of the register requests: one that is no JSON, complete ones,
\* and one with each field empty
Body(email, username, password) ==
    [wellFormed |-> TRUE, email |-> email, username |-> username, password |-> password]
Malformed == [wellFormed |-> FALSE, email |-> "", username |-> "", password |-> ""]

RegisterBodies ==
    {Malformed, Body("", "ann", "pw1"), Body("a@x", "", "pw1"), Body("a@x", "ann", "")}
    \cup {Body(e, "ann", p) : e \in Emails, p \in {"pw1", LongPassword}}

LoginBodies ==
    {Malformed, Body("", "", "pw1"), Body("a@x", "", "")}
    \cup {Body(e, "", p) : e \in Emails, p \in {"pw1", "pw2"}}

NoToken == [valid |-> FALSE, userId |-> ""]

\* encodeError(w, message, status), and the successful answer
ErrorReply(status, message) == [status |-> status, body |-> message, token |-> NoToken]
TokenReply(token) == [status |-> 200, body |-> "", token |-> token]

\* the locals of a register request before it is read
IdleRegister ==
    [pc |-> "idle", body |-> Malformed, secretSet |-> FALSE, userId |-> "", reply |-> NoReply]

InitUsers ==
    /\ rev = "users"
    /\ raw = <<>>
    /\ IdleSanitize
    /\ IdlePreprocess
    /\ metadata = NoMetadata
    /\ workers = [r \in RegisterRequests |-> IdleRegister]
    /\ animations = <<>>
    /\ users \in {{}, {LegacyUser}}
    /\ issued = {}
    /\ request = NoRequest
    /\ reply = NoReply

\* UserExists: SELECT COUNT(*) FROM users WHERE email = $1
UserExists(table, email) == \E row \in table : row.email = email

\* INSERT INTO users: id is the PRIMARY KEY and email is UNIQUE NOT NULL, the
\* statement fails when a row has the id or the email
DbInsertUser(table, row) ==
    IF \E other \in table : other.id = row.id \/ other.email = row.email
    THEN [ok |-> FALSE, table |-> table]
    ELSE [ok |-> TRUE, table |-> table \cup {row}]

\* CreateUserWithUsername with the id its generator drew
CreateUserWithUsername(table, id, email, username, passwordHash) ==
    DbInsertUser(table, [id |-> id, email |-> email, username |-> Username(username),
                         passwordHash |-> passwordHash])

\* generateJWT: fails when JWT_SECRET_KEY is not configured
generateJWT(userId, secretSet) ==
    IF ~secretSet THEN [ok |-> FALSE, token |-> NoToken]
    ELSE [ok |-> TRUE, token |-> [valid |-> TRUE, userId |-> userId]]

\* GetUserCredentials: SELECT id, password_hash FROM users WHERE email = $1
GetUserCredentials(table, email) ==
    IF ~UserExists(table, email)
    THEN [ok |-> FALSE, userId |-> "", storedHash |-> Hash("")]
    ELSE LET row == CHOOSE r \in table : r.email = email
         IN  [ok |-> TRUE, userId |-> row.id, storedHash |-> row.passwordHash]

\* GetUserDetails: Scan into a string fails on a NULL username
GetUserDetails(table, userId) ==
    \E row \in table : row.id = userId /\ row.username.valid

\* registerHandler up to the validation of the body
RegisterDecode(r) ==
    /\ rev = "users"
    /\ workers[r].pc = "idle"
    /\ \E body \in RegisterBodies, secretSet \in BOOLEAN :
           LET me == [workers[r] EXCEPT !.body = body, !.secretSet = secretSet]
           IN  workers' = [workers EXCEPT ![r] =
                   IF ~body.wellFormed
                   THEN [me EXCEPT !.pc = "done",
                                   !.reply = ErrorReply(400, "Invalid request format")]
                   ELSE IF body.email = "" \/ body.password = "" \/ body.username = ""
                   THEN [me EXCEPT !.pc = "done",
                                   !.reply = ErrorReply(400, "Username, email and password are required")]
                   ELSE [me EXCEPT !.pc = "check"]]
    /\ UNCHANGED <<sketchVars, animations, users, issued, request, reply>>

\* registerHandler: the UserExists query, then the hashing of the password
RegisterCheck(r) ==
    /\ rev = "users"
    /\ workers[r].pc = "check"
    /\ LET me == workers[r]
       IN  workers' = [workers EXCEPT ![r] =
               IF UserExists(users, me.body.email)
               THEN [me EXCEPT !.pc = "done", !.reply = ErrorReply(409, "User already exists")]
               ELSE IF HashFails(me.body.password)
               THEN [me EXCEPT !.pc = "done", !.reply = ErrorReply(500, "Error hashing password")]
               ELSE [me EXCEPT !.pc = "create"]]
    /\ UNCHANGED <<sketchVars, animations, users, issued, request, reply>>

\* registerHandler: the INSERT of CreateUserWithUsername, then generateJWT
\* and the answer
RegisterCreate(r) ==
    /\ rev = "users"
    /\ workers[r].pc = "create"
    /\ \E id \in UserIds :
           LET me == workers[r]
               c == CreateUserWithUsername(users, id, me.body.email, me.body.username,
                                           Hash(me.body.password))
               t == generateJWT(id, me.secretSet)
           IN  /\ users' = c.table
               /\ workers' = [workers EXCEPT ![r] =
                      IF ~c.ok
                      THEN [me EXCEPT !.pc = "done", !.reply = ErrorReply(500, "Error creating user")]
                      ELSE IF ~t.ok
                      THEN [me EXCEPT !.pc = "done", !.userId = id,
                                      !.reply = ErrorReply(500, "Error generating token")]
                      ELSE [me EXCEPT !.pc = "done", !.userId = id, !.reply = TokenReply(t.token)]]
    /\ UNCHANGED <<sketchVars, animations, issued, request, reply>>

\* the answer of loginHandler
LoginReply(table, body, secretSet) ==
    LET c == GetUserCredentials(table, body.email)
        t == generateJWT(c.userId, secretSet)
    IN  IF ~body.wellFormed THEN ErrorReply(400, "Invalid request format")
        ELSE IF body.email = "" \/ body.password = ""
        THEN ErrorReply(400, "Email and password are required")
        ELSE IF ~c.ok THEN ErrorReply(401, "Invalid credentials")
        ELSE IF ~CompareHashAndPassword(c.storedHash, body.password)
        THEN ErrorReply(401, "Invalid credentials")
        ELSE IF ~t.ok THEN ErrorReply(500, "Error generating token")
        ELSE IF ~GetUserDetails(table, c.userId)
        THEN ErrorReply(500, "Error retrieving user details")
        ELSE TokenReply(t.token)

\* loginHandler: POST /login
LoginHandler ==
    /\ rev = "users"
    /\ request = NoRequest
    /\ \E body \in LoginBodies, secretSet \in BOOLEAN :
           /\ request' = [route |-> "/login", body |-> body, secretSet |-> secretSet]
           /\ reply' = LoginReply(users, body, secretSet)
    /\ UNCHANGED <<sketchVars, workers, animations, users, issued>>

NextUsers ==
    \/ \E r \in RegisterRequests : RegisterDecode(r) \/ RegisterCheck(r) \/ RegisterCreate(r)
    \/ LoginHandler

SpecUsers == InitUsers /\ [][NextUsers]_vars

-----------------------------------------------------------------------------
(* All runs together *)

Init == InitSanitize \/ InitPreprocess \/ InitBracket \/ InitAnalyze \/ InitConcurrent \/ InitStore \/ InitGenerate \/ InitAuth \/ InitDot \/ InitUsers

Next == NextSanitize \/ NextPreprocess \/ NextAnalyze \/ NextConcurrent \/ NextStore \/ NextGenerate \/ NextAuth \/ NextDot \/ NextUsers

Spec == Init /\ [][Next]_vars


-----------------------------------------------------------------------------
(* Vocabulary of the properties.  These say what the specification means,  *)
(* position by position, and use none of the matching code above.          *)

\* s[from..to] exists and is white space only
AllSpace(s, from, to) == \A k \in from..to : k \in 1..Len(s) /\ s[k] \in SpaceChar

\* s is empty or white space only
IsBlank(s) == AllSpace(s, 1, Len(s))

\* s with the white space at both ends removed
Stripped(s) ==
    IF IsBlank(s) THEN <<>>
    ELSE LET a == CHOOSE i \in 1..Len(s) : s[i] \notin SpaceChar /\ AllSpace(s, 1, i - 1)
             b == CHOOSE j \in 1..Len(s) : s[j] \notin SpaceChar /\ AllSpace(s, j + 1, Len(s))
         IN  SubSeq(s, a, b)

\* the opening of the instance-mode wrapper
WrapPrefix == <<"n","e","w"," ","p","5","(","f","u","n","c","t","i","o","n","(","p",")"," ","{">>

\* a sanitizer of revision r has returned at least n times
Returned(r, n) == rev = r /\ Len(calls) >= n

\* s without the white space at its ends is a fence tagged tag on a line of
\* its own, a body holding no fence, and a closing fence
FencedBody(s, tag) ==
    LET core == Stripped(s)
        open == Fence \o tag \o Newline
    IN  Slice(core, Len(open) + 1, Len(core) - Len(Fence))

IsFenced(s, tag) ==
    LET core == Stripped(s)
        open == Fence \o tag \o Newline
    IN  /\ Len(core) >= Len(open) + Len(Fence)
        /\ SubSeq(core, 1, Len(open)) = open
        /\ SubSeq(core, Len(core) - Len(Fence) + 1, Len(core)) = Fence
        /\ Count(FencedBody(s, tag), Fence) = 0

RecognizedTags == {TagJs, TagJavascript}

-----------------------------------------------------------------------------
(* The route sanitizer, sanitizeSketchCode                                 *)

\* C1: sanitizing the empty text, or a text of white space only, returns the
\* empty text.
C1_BlankGivesEmpty ==
    (Returned("instance", 1) /\ IsBlank(raw)) => calls[1] = <<>>

\* C2: sanitizing an already sanitized text adds no second wrapper: after two
\* applications the text opens with the wrapper prefix and the prefix occurs
\* in it exactly once.
C2_SecondPassAddsNoWrapper ==
    Returned("instance", 2) =>
        /\ HasPrefix(calls[2], WrapPrefix)
        /\ Count(calls[2], WrapPrefix) = 1

\* C3: for every non-empty input the sanitized text is not blank and is
\* wrapped exactly once, also when the input already holds the wrapper
\* below a leading comment.
C3_WrappedExactlyOnce ==
    (Returned("instance", 1) /\ raw # <<>>) =>
        /\ ~IsBlank(calls[1])
        /\ Count(calls[1], WrapPrefix) = 1

\* C4: when the input is a fence with a recognized tag around the code, with
\* any white space before and after it, the sanitized text holds the fenced
\* code and no fence marker; this holds for the trimming revision and for
\* the matching revision of sanitizeSketchCode.
C4_FenceRemoved ==
    \A tag \in RecognizedTags :
        (Len(calls) >= 1 /\ rev \in {"instance", "trim"} /\ IsFenced(raw, tag)) =>
            /\ Contains(calls[1], Stripped(FencedBody(raw, tag)))
            /\ ~Contains(calls[1], Fence)

-----------------------------------------------------------------------------
(* Fence tags and SanitizeAnimationCode                                    *)

\* the letters of a tag in lower case
Lower(c) ==
    CASE c = "J" -> "j"
      [] c = "S" -> "s"
      [] OTHER   -> c

LowerText(s) == [k \in 1..Len(s) |-> Lower(s[k])]

\* the input with the tag after its first fence written in lower case
LowerTagged(s) ==
    LET i  == IndexFrom(s, Fence, 1)
        nl == IndexFrom(s, Newline, i)
    IN  IF i = 0 \/ nl = 0 THEN s
        ELSE Slice(s, 1, i + 2) \o LowerText(Slice(s, i + 3, nl - 1)) \o Slice(s, nl, Len(s))

\* s is a fence around code whose tag is js or javascript in another case
HasUpperTag(s) ==
    /\ LowerTagged(s) # s
    /\ \E tag \in RecognizedTags : IsFenced(LowerTagged(s), tag)

\* what the sanitizer of the current revision returns for a text
Sanitized(text) ==
    CASE rev = "instance" -> sanitizeSketchCode(text)
      [] rev = "trim"     -> sanitizeSketchCodeTrim(text)
      [] OTHER            -> SanitizeAnimationCode(text)

\* C5: the fence extractors match the tag without regard to case: a fence
\* tagged JS or JavaScript is treated exactly as the same fence tagged js or
\* javascript.
C5_TagCaseIgnored ==
    (Len(calls) >= 1 /\ rev \in {"instance", "internal"} /\ HasUpperTag(raw)) =>
        calls[1] = Sanitized(LowerTagged(raw))

RECURSIVE FirstBlockFrom(_, _)
\* the fenced blocks of s pair its fences in order; the inner text of the first
\* block from index i whose tag line is empty, js or javascript, or "none"
FirstBlockFrom(s, i) ==
    LET o  == IndexFrom(s, Fence, i)
        c  == IF o = 0 THEN 0 ELSE IndexFrom(s, Fence, o + 3)
        nl == IF o = 0 THEN 0 ELSE IndexFrom(s, Newline, o + 3)
    IN  IF o = 0 \/ c = 0 THEN [found |-> FALSE, inner |-> <<>>]
        ELSE IF nl > 0 /\ nl < c /\ Slice(s, o + 3, nl - 1) \in (RecognizedTags \cup {<<>>})
             THEN [found |-> TRUE, inner |-> Slice(s, nl + 1, c - 1)]
             ELSE FirstBlockFrom(s, c + 3)

\* C6: SanitizeAnimationCode returns the trimmed inner text of the first fenced
\* block that is untagged or tagged javascript or js, and the trimmed input
\* when there is no such block.
C6_FirstRecognizedBlock ==
    Returned("internal", 1) =>
        LET b == FirstBlockFrom(raw, 1)
        IN  calls[1] = Stripped(IF b.found THEN b.inner ELSE raw)

-----------------------------------------------------------------------------
(* PreprocessP5Code                                                        *)

Identifiers == {<<"x">>, <<"y">>}

\* the number of blanks and tabs a line starts with
Indent(line) ==
    CHOOSE n \in 0..Len(line) :
        /\ \A k \in 1..n : line[k] \in {" ", "\t"}
        /\ n = Len(line) \/ line[n + 1] \notin {" ", "\t"}

\* the line is a bare assignment "id = expr;" after its indentation
BareAssignTo(line, id) ==
    /\ MatchAt(line, Indent(line) + 1, id \o <<" ","="," ">>)
    /\ HasSuffix(line, <<";">>)

\* the line declares id with let, var, const or function
DeclaresIn(line, id) ==
    \E kw \in {KwLet, KwVar, KwConst, KwFunction} :
        \E i \in 1..Len(line) :
            /\ MatchAt(line, i, kw \o <<" ">> \o id)
            /\ i + Len(kw) + Len(id) + 1 > Len(line)
               \/ line[i + Len(kw) + Len(id) + 1] \notin IdentChar

\* the line with "let " put in after its indentation
WithLet(line) ==
    Slice(line, 1, Indent(line)) \o LetSpace \o Slice(line, Indent(line) + 1, Len(line))

\* the lines of the input that are bare assignments to id
AssignLines(id) == {k \in 1..Len(lines) : BareAssignTo(lines[k], id)}

\* C7: for every identifier that is assigned on several lines and declared
\* nowhere in the input, the output holds exactly one "let" for it, on the
\* line of its first assignment with the indentation kept, and the later
\* assignments are left as they were.
C7_OneLetAtFirstAssignment ==
    \A id \in Identifiers :
        (/\ rev = "preprocess" /\ pc = "done"
         /\ Cardinality(AssignLines(id)) >= 2
         /\ \A k \in 1..Len(lines) : ~DeclaresIn(lines[k], id)) =>
            LET first == CHOOSE k \in AssignLines(id) : \A m \in AssignLines(id) : k <= m
            IN  /\ processedLines[first] = WithLet(lines[first])
                /\ \A k \in AssignLines(id) \ {first} : processedLines[k] = lines[k]
                /\ Count(result, LetSpace \o id) = 1

\* the argument lists a canvas line may pass
CanvasArgLists == {<<"4","0","0",","," ","3","0","0">>, <<"w",","," ","h">>, <<"m","i","n","(","a",","," ","b",")",","," ","3","0","0">>}

\* the line binds the canvas: indentation, let, var or const, "canvas =",
\* a createCanvas call with the arguments args, a semicolon, anything
BindsCanvas(line, args) ==
    \E kw \in {KwLet, KwVar, KwConst} :
        MatchAt(line, Indent(line) + 1,
                kw \o <<" ","c","a","n","v","a","s"," ","="," ","c","r","e","a","t","e","C","a","n","v","a","s","(">> \o args \o <<")",";">>)

\* C8: a line binding the canvas, "let canvas = createCanvas(args);" with let,
\* var or const, comes out holding "createCanvas(args);" with the arguments
\* unchanged and the binding gone, whatever else the line contains.
C8_CanvasBindingRemoved ==
    \A args \in CanvasArgLists :
        \A k \in 1..Len(lines) :
            (rev = "preprocess" /\ pc = "done" /\ BindsCanvas(lines[k], args)) =>
                /\ Contains(processedLines[k], <<"c","r","e","a","t","e","C","a","n","v","a","s","(">> \o args \o <<")",";">>)
                /\ ~Contains(processedLines[k], <<"c","a","n","v","a","s"," ","=">>)

-----------------------------------------------------------------------------
(* AnalyzeP5Code                                                           *)

\* the input holds "function", white space, name, optional white space, "("
Defines(code, name) ==
    \E i \in 1..Len(code) :
        /\ MatchAt(code, i, KwFunction)
        /\ \E j \in (i + Len(KwFunction) + 1)..Len(code) :
               /\ AllSpace(code, i + Len(KwFunction), j - 1)
               /\ MatchAt(code, j, name)
               /\ \E k \in (j + Len(name))..Len(code) :
                      /\ AllSpace(code, j + Len(name), k - 1)
                      /\ code[k] = "("

Analyzed == rev = "analyze" /\ metadata # NoMetadata

\* C9: for every input that defines draw and does not define setup, the
\* report holds exactly one error, the missing-setup error, with hasSetup
\* false, hasDraw true and isValid false.
C9_DrawOnlyReport ==
    (Analyzed /\ Defines(raw, <<"d","r","a","w">>) /\ ~Defines(raw, <<"s","e","t","u","p">>)) =>
        /\ metadata.errors = <<ErrMissingSetup>>
        /\ metadata.hasSetup = FALSE
        /\ metadata.hasDraw = TRUE
        /\ metadata.isValid = FALSE

\* an input with draw and without setup has been analyzed, one that also
\* holds the words "function setup" without a parameter list
C9_DrawOnlyAnalyzed ==
    /\ Analyzed
    /\ Defines(raw, <<"d","r","a","w">>)
    /\ ~Defines(raw, <<"s","e","t","u","p">>)
    /\ Contains(raw, <<"f","u","n","c","t","i","o","n"," ","s","e","t","u","p">>)
    /\ metadata.errors = <<ErrMissingSetup>>

\* the texts of the numeric arguments
Numerals == {<<"4","0","0">>, <<"3","0","0">>, <<"4","0">>, <<"3","0">>}

Gaps == {<<>>, <<" ">>}

\* the canvas call of the input, the first text "createCanvas" in it, passes
\* the two arguments w and h, each with optional blanks around it
CallsCanvas(code, w, h) ==
    LET i == IndexFrom(code, CreateCanvas, 1)
    IN  /\ i > 0
        /\ \E g1 \in Gaps, g2 \in Gaps, g3 \in Gaps, g4 \in Gaps :
               MatchAt(code, i + Len(CreateCanvas),
                       <<"(">> \o g1 \o w \o g2 \o <<",">> \o g3 \o h \o g4 \o <<")">>)

\* C10: for every input that defines setup and draw and whose canvas call is
\* createCanvas(w, h) with two numeric arguments, the report has isValid true,
\* hasCanvas true, canvasWidth the text of w and canvasHeight the text of h.
C10_CanvasReport ==
    \A w \in Numerals, h \in Numerals :
        (/\ Analyzed
         /\ Defines(raw, <<"s","e","t","u","p">>) /\ Defines(raw, <<"d","r","a","w">>)
         /\ CallsCanvas(raw, w, h)) =>
            /\ metadata.isValid = TRUE
            /\ metadata.hasCanvas = TRUE
            /\ "canvasWidth" \in DOMAIN metadata /\ metadata.canvasWidth = w
            /\ "canvasHeight" \in DOMAIN metadata /\ metadata.canvasHeight = h

\* a complete sketch whose canvas call has blanks around its arguments has
\* been analyzed
C10_SpacedCanvasAnalyzed ==
    /\ Analyzed
    /\ Defines(raw, <<"s","e","t","u","p">>) /\ Defines(raw, <<"d","r","a","w">>)
    /\ CallsCanvas(raw, <<"4","0">>, <<"3","0">>)
    /\ Contains(raw, <<"c","r","e","a","t","e","C","a","n","v","a","s","("," ","4","0"," ",",","3","0"," ",")">>)
    /\ metadata.canvasHeight = <<"3","0">>

-----------------------------------------------------------------------------
(* The report of AnalyzeP5Code                                             *)

\* the errors the report must list for an input
ExpectedErrors(code) ==
    (IF Defines(code, <<"s","e","t","u","p">>) THEN <<>> ELSE <<ErrMissingSetup>>)
    \o (IF Defines(code, <<"d","r","a","w">>) THEN <<>> ELSE <<ErrMissingDraw>>)

\* C11: for every input, the empty one included, isValid is true exactly when
\* the error list is empty and exactly when hasSetup and hasDraw are; the
\* list is the missing-setup error, then the missing-draw error, each there
\* exactly when its function is absent; the canvas, the interaction handlers
\* and every other function leave both untouched.
C11_ValidityFromLifecycle ==
    Analyzed =>
        /\ metadata.isValid = (metadata.errors = <<>>)
        /\ metadata.isValid = (metadata.hasSetup /\ metadata.hasDraw)
        /\ metadata.hasSetup = Defines(raw, <<"s","e","t","u","p">>)
        /\ metadata.hasDraw = Defines(raw, <<"d","r","a","w">>)
        /\ metadata.errors = ExpectedErrors(raw)

\* an input with a canvas and an interaction handler and without setup has
\* been analyzed
C11_CanvasAndHandlerAnalyzed ==
    /\ Analyzed
    /\ metadata.hasCanvas
    /\ metadata.hasInteraction
    /\ ~Defines(raw, <<"s","e","t","u","p">>)
    /\ metadata.errors = <<ErrMissingSetup>>

-----------------------------------------------------------------------------
(* The declaration table of PreprocessP5Code                               *)

\* C12: within one call the table only grows: no step of the scan pass or of
\* the rewrite pass removes an identifier, and the call starts with an empty
\* table.
C12_TableOnlyGrows ==
    [][/\ pc # "idle" => declaredVars \subseteq declaredVars'
       /\ (pc = "idle" /\ pc' # "idle") => declaredVars' = {}]_vars

\* the rewrite pass has added an identifier to a table the scan pass had
\* already filled
C12_TableGrewInRewrite ==
    /\ rev = "preprocess"
    /\ pc = "done"
    /\ ScanAll(lines) # {}
    /\ ScanAll(lines) \subseteq declaredVars
    /\ declaredVars # ScanAll(lines)

\* the names a declaration list may hold between its keyword and id
ListChars == IdentChar \cup {",", " "}

\* the line binds id with let, var or const, alone or in a comma-separated
\* list, or defines a function named id
BindsIn(line, id) ==
    \/ DeclaresIn(line, id)
    \/ \E kw \in {KwLet, KwVar, KwConst} :
           \E i \in 1..Len(line) :
               /\ MatchAt(line, i, kw \o <<" ">>)
               /\ \E j \in (i + Len(kw) + 1)..Len(line) :
                      /\ MatchAt(line, j, id)
                      /\ \A k \in (i + Len(kw) + 1)..(j - 1) : line[k] \in ListChars
                      /\ line[j - 1] \notin IdentChar
                      /\ j + Len(id) > Len(line) \/ line[j + Len(id)] \notin IdentChar

\* C19: after the scan pass every identifier that a line binds with let, var
\* or const or defines as a function is in the table, also when the line
\* holds several declarations; no such identifier is promoted afterwards.
C19_AllDeclarationsScanned ==
    \A id \in Identifiers :
        (/\ rev = "preprocess"
         /\ pc \in {"rewrite", "join", "done"}
         /\ \E k \in 1..Len(lines) : BindsIn(lines[k], id)) =>
            /\ id \in declaredVars
            /\ \A k \in 1..Len(processedLines) :
                   ~(BareAssignTo(lines[k], id) /\ processedLines[k] = WithLet(lines[k]))

\* the line invokes .parent(...): ".parent(" and a closing parenthesis after it
InvokesParent(line) ==
    \E i \in 1..Len(line) :
        /\ MatchAt(line, i, ParentOpen)
        /\ \E j \in (i + Len(ParentOpen))..Len(line) : line[j] = ")"

\* the comment that stands for a parent call
ParentNote == <<"/","/"," ","C","a","n","v","a","s"," ","p","a","r","e","n","t"," ","h","a","n","d","l","e","d"," ","b","y"," ","i","n","s","t","a","n","c","e"," ","m","o","d","e">>

\* C20: every input line that invokes .parent(...) comes out as its
\* indentation and the comment "// Canvas parent handled by instance mode",
\* with nothing of the call left after it.
C20_ParentLineReplaced ==
    \A k \in 1..Len(processedLines) :
        (rev = "preprocess" /\ InvokesParent(lines[k])) =>
            LET out == processedLines[k]
                n   == Indent(lines[k])
            IN  /\ MatchAt(out, 1, Slice(lines[k], 1, n) \o ParentNote)
                /\ IsBlank(Slice(out, n + Len(ParentNote) + 1, Len(out)))
                /\ ~Contains(out, ParentOpen)

-----------------------------------------------------------------------------
(* Concurrent calls of PreprocessP5Code                                    *)

\* C17: concurrent calls do not interfere: in every interleaving of the
\* calls, each with its own table, the output of a call is the output of the
\* same call run alone on its input.
C17_CallsDoNotInterfere ==
    rev = "concurrent" =>
        \A w \in Workers :
            workers[w].pc = "done" => workers[w].result = PreprocessP5Code(workers[w].code)

\* one call has returned a promoted "x" while another call, whose input
\* declares x, is in its rewrite pass with x in its table
C17_OverlappingCalls ==
    /\ rev = "concurrent"
    /\ workers["w1"].code = <<"x"," ","="," ","5",";">>
    /\ workers["w1"].pc = "done"
    /\ workers["w1"].result = <<"l","e","t"," ","x"," ","="," ","5",";">>
    /\ workers["w2"].code = <<"l","e","t"," ","x"," ","="," ","1",";">>
    /\ workers["w2"].pc = "rewrite"
    /\ <<"x">> \in workers["w2"].declaredVars

-----------------------------------------------------------------------------
(* Saving and retrieving animations                                        *)

\* C13: after a save of (code, description) that returned id, and after any
\* further saves, retrieving id returns that code and that description.
C13_SaveRetrieveRoundTrip ==
    (rev \in StoreRevs /\ request.route = "get") =>
        \A s \in issued :
            s.id = request.id =>
                /\ reply.status = 200
                /\ reply.code = s.code
                /\ reply.description = s.description

\* an animation saved with a description has been retrieved after a second
\* save succeeded under the other id
C13_RetrievedAfterSaves ==
    /\ rev \in StoreRevs
    /\ request.route = "get"
    /\ Cardinality(issued) = 2
    /\ \E s \in issued : s.id = request.id /\ s.description # <<>> /\ reply.code = s.code
    /\ reply.status = 200

\* C15: no animation with empty code is persisted: in every revision a save
\* request with empty code is answered with an error and leaves the table
\* as it was.
C15_EmptyCodeNotSaved ==
    [][(rev \in StoreRevs /\ request'.route = "save" /\ request'.code = <<>>) =>
           /\ reply'.status # 200
           /\ animations' = animations]_vars

\* C18: GET /animation/{id} answers 200 with the stored code for every id of
\* a stored animation, a NULL description being returned as the empty one,
\* and 404 for every id without an animation.
C18_GetAnswers ==
    (rev \in StoreRevs /\ request.route = "get") =>
        IF request.id \in DOMAIN animations
        THEN /\ reply.status = 200
             /\ reply.code = animations[request.id].code
             /\ reply.description =
                    (IF animations[request.id].description.valid
                     THEN animations[request.id].description.text ELSE <<>>)
        ELSE reply.status = 404

-----------------------------------------------------------------------------
(* The generate and fix routes                                             *)

\* C14: the generate and fix handlers never answer with a success whose code
\* is empty: when the sanitized text of the model is empty, the answer is an
\* error.
C14_NoEmptyCodeInSuccess ==
    (rev \in GenerateRevs /\ request.route \in {"generate", "fix"} /\ reply.status = 200) =>
        reply.code # <<>>

-----------------------------------------------------------------------------
(* The protected routes                                                    *)

\* the request carries "Authorization: Bearer <token>" with a token that is
\* HMAC-signed with the configured secret, valid, and has a string userId
Authorized(req) ==
    \E t \in TokenIds :
        /\ req.authHeader = <<"B","e","a","r","e","r"," ">> \o <<t>>
        /\ TokenOf[t].parses
        /\ TokenOf[t].alg \in {"HS256", "HS384", "HS512"}
        /\ req.secretSet /\ TokenOf[t].key = "secret"
        /\ ~TokenOf[t].expired
        /\ TokenOf[t].userId = "string"

-----------------------------------------------------------------------------
(* Where PreprocessP5Code inserts "let"                                    *)

\* the names a line of the sketches may start with
AssignNames == {<<"x">>, <<"y">>, <<"d","r","a","w">>}

\* the code portion of a line: the text before any comment, without the
\* white space around it
CodeOf(line) == TrimSpace(CodePart(line))

\* the code portion of the line is the assignment statement "id = expr;":
\* the name, optional blanks, a "=" that starts neither "==" nor "=>", an
\* expression, a semicolon at the end
StatementAssigns(line, id) ==
    LET code == CodeOf(line)
        e == SkipClass(code, Len(id) + 1, SpaceChar)
    IN  /\ MatchAt(code, 1, id)
        /\ MatchAt(code, e, <<"=">>)
        /\ ~MatchAt(code, e + 1, <<"=">>)
        /\ ~MatchAt(code, e + 1, <<">">>)
        /\ e + 1 < Len(code)
        /\ code[Len(code)] = ";"

\* the line is the header of a for or an if
IsHeader(line) ==
    \E h \in {<<"f","o","r"," ">>, <<"f","o","r","(">>, <<"i","f"," ">>, <<"i","f","(">>} : MatchAt(CodeOf(line), 1, h)

\* line k of the output starts with a "let" that line k of the input lacks
LetInserted(k) ==
    /\ MatchAt(processedLines[k], Indent(processedLines[k]) + 1, LetSpace)
    /\ ~MatchAt(lines[k], Indent(lines[k]) + 1, LetSpace)

\* C21: "let" is inserted only on a line whose code portion is a bare
\* assignment statement "identifier = expr;" to an identifier that is
\* declared nowhere in the input and is no lifecycle-function name, the line
\* being no for or if header; never on an arrow function "x => ..." or a
\* continuation line "a = 1,".
C21_LetOnlyOnAssignments ==
    (rev = "preprocess" /\ pc = "done") =>
        \A k \in 1..Len(lines) :
            LetInserted(k) =>
                /\ ~IsHeader(lines[k])
                /\ \E id \in AssignNames :
                       /\ StatementAssigns(lines[k], id)
                       /\ id \notin p5Functions
                       /\ \A j \in 1..Len(lines) : ~DeclaresIn(lines[j], id)

\* C22: every line whose code portion is a bare assignment "identifier =
\* expr;" to an identifier that is declared nowhere in the input, is no
\* lifecycle-function name and was not assigned on an earlier line, the line
\* being no for or if header, comes out with "let" inserted before the
\* identifier, whatever text expr contains.
C22_EveryFirstAssignmentPromoted ==
    \A id \in AssignNames :
        \A k \in 1..Len(lines) :
            (/\ rev = "preprocess" /\ pc = "done"
             /\ StatementAssigns(lines[k], id)
             /\ id \notin p5Functions
             /\ ~IsHeader(lines[k])
             /\ \A j \in 1..Len(lines) : ~DeclaresIn(lines[j], id)
             /\ \A j \in 1..(k - 1) : ~StatementAssigns(lines[j], id)) =>
                processedLines[k] = WithLet(lines[k])

\* C26: whenever a step of the rewrite pass marks an identifier bound, the
\* line that step emits holds "let <identifier>": no identifier is marked
\* while the emitted line carries no declaration of it.
C26_MarkedMeansDeclared ==
    [][(rev = "preprocess" /\ pc = "rewrite") =>
          \A id \in declaredVars' \ declaredVars :
              Contains(processedLines'[Len(processedLines')], LetSpace \o id)]_vars

-----------------------------------------------------------------------------
(* Lines no rule of PreprocessP5Code applies to                           *)

\* the line holds a canvas binding: let, var or const, "canvas", "=", and a
\* createCanvas call closed by ");"
HoldsCanvasBinding(line) ==
    \E i \in 1..Len(line) :
        LET k == DeclKeywordLen(line, i)
            j == SkipClass(line, i + k, SpaceChar)
        IN  /\ k > 0
            /\ j > i + k
            /\ MatchAt(line, j, Canvas)
            /\ IndexFrom(line, CreateCanvasOpen, j) > 0

\* the line holds a ".parent(" call
HoldsParentCall(line) == Contains(line, ParentOpen)

\* the line holds an index that a "." follows before any "]":
\* word, "[", word, "."
HoldsOpenBracket(line) ==
    \E i \in 2..Len(line) :
        /\ line[i] = "["
        /\ line[i - 1] \in WordChar
        /\ SkipClass(line, i + 1, WordChar) > i + 1
        /\ MatchAt(line, SkipClass(line, i + 1, WordChar), <<".">>)

\* the line starts with an assignment: blanks, an identifier, blanks, a "="
\* that another "=" does not follow
StartsWithAssignment(line) ==
    LET n == SkipClass(line, 1, SpaceChar)
        e == SkipClass(line, n, IdentChar)
        a == SkipClass(line, e, SpaceChar)
    IN  /\ n <= Len(line)
        /\ line[n] \in IdentStart
        /\ MatchAt(line, a, <<"=">>)
        /\ a < Len(line)
        /\ line[a + 1] # "="

MatchesNoRule(line) ==
    /\ ~HoldsCanvasBinding(line)
    /\ ~HoldsParentCall(line)
    /\ ~HoldsOpenBracket(line)
    /\ ~StartsWithAssignment(line)

\* C25: the call never fails: each of its steps has a line to work on and
\* leads to the next step or to the return; every input line that matches
\* none of the four rule patterns is in the output unchanged, at the place
\* it had among the lines.
C25_UnmatchedLinesPassThrough ==
    rev = "preprocess" =>
        /\ pc \in {"idle", "scan", "rewrite", "join", "done"}
        /\ pc \in {"scan", "rewrite"} => lineNo \in 1..Len(lines)
        /\ pc \in {"rewrite", "join", "done"} =>
               \A k \in 1..Len(processedLines) :
                   MatchesNoRule(lines[k]) => processedLines[k] = lines[k]
        /\ pc = "done" =>
               /\ Len(processedLines) = Len(lines)
               /\ result = JoinLines(processedLines)

\* a call has returned a sketch of two lines, one that no rule matches,
\* holding an "==" comparison, after one that the assignment rule rewrote
C25_ComparisonPassedThrough ==
    /\ rev = "preprocess" /\ pc = "done"
    /\ Len(lines) = 2
    /\ processedLines[1] # lines[1]
    /\ lines[2] = <<"x"," ","=","="," ","5",";">>
    /\ MatchesNoRule(lines[2])
    /\ processedLines[2] = lines[2]

-----------------------------------------------------------------------------
(* The bracket repair of PreprocessP5Code                                  *)

\* the line with "]" put in before its first "."
WithBracket(line) ==
    LET d == IndexFrom(line, <<".">>, 1)
    IN  Slice(line, 1, d - 1) \o <<"]">> \o Slice(line, d, Len(line))

\* C23: every line "array[index.field op= value;", op being empty, +, -, *
\* or /, comes out as "array[index].field op= value;" with nothing else
\* changed, and a line whose index is already closed comes out as it was.
C23_BracketRepaired ==
    (rev = "preprocess" /\ pc = "done") =>
        \A k \in 1..Len(lines) :
            /\ lines[k] \in OpenLines => processedLines[k] = WithBracket(lines[k])
            /\ lines[k] \in ClosedLines => processedLines[k] = lines[k]

\* a call has returned after a line with an open index and the operator /
\* and a line with a closed index
C23_OpenAndClosedRewritten ==
    /\ rev = "preprocess" /\ pc = "done"
    /\ Len(lines) = 2
    /\ lines[1] = <<"p","t","s","[","i",".","x"," ","/","="," ","b"," ","+"," ","1",";">>
    /\ processedLines[1] = <<"p","t","s","[","i","]",".","x"," ","/","="," ","b"," ","+"," ","1",";">>
    /\ lines[2] = <<"a","[","i","]",".","x"," ","="," ","1",";">>
    /\ result = <<"p","t","s","[","i","]",".","x"," ","/","="," ","b"," ","+"," ","1",";","\n","a","[","i","]",".","x"," ","="," ","1",";">>

-----------------------------------------------------------------------------
(* The dot loop of sanitizeSketchCode                                      *)

\* the number of non-word characters that end at index e of s
RECURSIVE ChainBefore(_, _)
ChainBefore(s, e) ==
    IF e < 1 THEN 0
    ELSE IF s[e] \in WordChar THEN 0
    ELSE 1 + ChainBefore(s, e - 1)

\* the places where ".identifier" starts
DottedAt(s) == {d \in 1..(Len(s) - 1) : s[d] = "." /\ s[d + 1] \in WordChar}

\* every ".identifier" of s follows a chain of at most n dots or other
\* non-word characters
ChainsAtMost(s, n) == \A d \in DottedAt(s) : ChainBefore(s, d - 1) <= n

\* a non-word character, ".", and a word character follow one another
\* somewhere in s: the substitution has something to replace
DotMatches(s) ==
    \E i \in 1..(Len(s) - 2) :
        s[i] \notin WordChar /\ s[i + 1] = "." /\ s[i + 2] \in WordChar

-----------------------------------------------------------------------------
(* Stored animations stay as they were saved                               *)

\* C30: no step overwrites or removes a row of the table; after every step
\* each id that a successful save returned maps to the code and description
\* of that save, and no id was returned by two saves: a save that draws an
\* id already in the table fails.
C30_StoredAnimationsKept ==
    [][(rev \in StoreRevs) =>
          (/\ \A id \in DOMAIN animations :
                  id \in DOMAIN animations' /\ animations'[id] = animations[id]
           /\ \A s \in issued' :
                  /\ s.id \in DOMAIN animations'
                  /\ animations'[s.id] = Row(s.code, s.description)
           /\ \A s \in issued' : \A t \in issued' : (s.id = t.id => s = t))]_vars

\* every id the generator can draw is taken, and a save of other code has
\* just failed
C30_CollidingSaveFailed ==
    /\ rev \in StoreRevs
    /\ request.route = "save"
    /\ request.code = <<"g","(",")",";">>
    /\ reply.status = 500
    /\ RandomIds \subseteq DOMAIN animations
    /\ \A s \in issued : s.code = <<"f","(",")",";">> /\ animations[s.id].code = <<"f","(",")",";">>
    /\ Cardinality(issued) = Cardinality(RandomIds)

-----------------------------------------------------------------------------
(* Registration and login                                                  *)

ErrorStatuses == {400, 409, 500}

\* C27: a register request that is answered with an error status, 400, 409
\* or 500, has created no user row: the step that ends it with the error
\* leaves the table as it was, also when the error is the token that cannot
\* be signed because JWT_SECRET_KEY is not configured.
C27_ErrorLeavesNoUser ==
    [][\A r \in RegisterRequests :
          (/\ rev = "users"
           /\ workers[r].pc # "done"
           /\ workers'[r].pc = "done"
           /\ workers'[r].reply.status \in ErrorStatuses) => users' = users]_vars

\* the body is complete and its password can be hashed
Registrable(body) ==
    /\ body.wellFormed
    /\ body.email # "" /\ body.username # "" /\ body.password # ""
    /\ body.password # LongPassword

\* C28: when several register requests that use one email have all been
\* answered, however their steps interleaved, at most one row holds the
\* email, at most one request was given a token, and every request that did
\* not create the user was answered 409 "User already exists".
C28_OneWinnerOthersConflict ==
    \A e \in Emails :
        LET same == {r \in RegisterRequests : Registrable(workers[r].body) /\ workers[r].body.email = e}
        IN  (rev = "users" /\ Cardinality(same) >= 2 /\ \A r \in same : workers[r].pc = "done") =>
                /\ Cardinality({row \in users : row.email = e}) <= 1
                /\ Cardinality({r \in same : workers[r].reply.token.valid}) <= 1
                /\ \A r \in same :
                       (~\E row \in users : row.id = workers[r].userId) =>
                           /\ workers[r].reply.status = 409
                           /\ workers[r].reply.body = "User already exists"

\* the login request is well formed and its email has no user, or has a
\* user whose password is another one
RejectedLogin ==
    /\ rev = "users"
    /\ request.route = "/login"
    /\ request.body.wellFormed
    /\ request.body.email # "" /\ request.body.password # ""
    /\ \A row \in users :
           row.email = request.body.email => row.passwordHash # Hash(request.body.password)

\* C29: a well-formed login for an email without a user and one for a
\* registered email with a wrong password get the same answer, status 401
\* with the body "Invalid credentials", and no token.
C29_LoginDoesNotRevealEmail ==
    RejectedLogin =>
        reply = [status |-> 401, body |-> "Invalid credentials", token |-> NoToken]

\* a login with a wrong password for an email registered in this run has
\* been rejected
C29_WrongPasswordRejected ==
    /\ RejectedLogin
    /\ request.body.email = "b@x"
    /\ \E row \in users : row.email = "b@x" /\ row.username = Username("ann")
    /\ reply.status = 401
=============================================================================
